---------------------------- MODULE Spec2Model ----------------------------
(***************************************************************************)
(* Smart-bin IoT demo: the data manager's ingestion pipeline, its store    *)
(* interface and its startup (src/app_manager.py), the bin system that     *)
(* produces the telemetry (src/SmartBinSystem.py, src/BinActuator.py,      *)
(* src/UltrasonicSensor.py), the monitoring view (src/MonitorGUI.py) and   *)
(* the topic configuration (src/mqtt_init.py).                             *)
(*                                                                         *)
(* Text is modelled as a sequence of tokens.  A token is one character of  *)
(* the numeric alphabet (a digit, ".", "+", "-"), the topic separator "/", *)
(* or a word: a run of other characters that is never split (a topic       *)
(* segment such as "bin_1", a payload such as "ERROR").  The words "nan"   *)
(* and "inf" are the float literals Python accepts; every other word is    *)
(* not part of any float literal.                                          *)
(***************************************************************************)
EXTENDS Integers, Sequences, FiniteSets, TLC

(***************************************************************************)
(* Bounds of the model.                                                    *)
(***************************************************************************)
MaxMsgs == 2        \* messages handed to DataManager._on_message
MaxBus == 3         \* messages of the bin system the broker holds
MaxThreads == 2     \* emptying-sequence threads alive at once
MaxLoops == 2       \* measurement-loop threads alive at once
MaxMeasure == 1     \* measurements a bin system takes

(***************************************************************************)
(* src/mqtt_init.py                                                        *)
(***************************************************************************)
BASE_TOPIC == <<"municipal", "/", "bins", "/">>
ALARM_TOPIC == BASE_TOPIC \o <<"alarm">>

\* A float is [k, m, e]: the decimal m / 10^e when k = "num" (normalised:
\* e = 0 or m not divisible by 10), plus or minus infinity when k = "inf"
\* (m = 1 or -1), not-a-number when k = "nan".
BIN_FILL_LEVEL_THRESHOLD == [k |-> "num", m |-> 80, e |-> 0]

(***************************************************************************)
(* Numbers and their text                                                  *)
(***************************************************************************)
Digits == <<"0", "1", "2", "3", "4", "5", "6", "7", "8", "9">>

IsDigit(c) == \E i \in 1..10 : Digits[i] = c

DigitVal(c) == (CHOOSE i \in 1..10 : Digits[i] = c) - 1

RECURSIVE Pow10(_)
Pow10(n) == IF n = 0 THEN 1 ELSE 10 * Pow10(n - 1)

RECURSIVE Norm(_, _)
Norm(m, e) == IF e > 0 /\ m % 10 = 0 THEN Norm(m \div 10, e - 1)
              ELSE [k |-> "num", m |-> m, e |-> e]

NaN == [k |-> "nan", m |-> 0, e |-> 0]
Inf(sign) == [k |-> "inf", m |-> sign, e |-> 0]
NoFloat == [k |-> "ValueError", m |-> 0, e |-> 0]

AllDigits(s) == \A i \in 1..Len(s) : IsDigit(s[i])

RECURSIVE NatOf(_)
NatOf(s) == IF s = <<>> THEN 0
            ELSE 10 * NatOf(SubSeq(s, 1, Len(s) - 1)) + DigitVal(s[Len(s)])

\* float(payload) on an unsigned literal: digits [ "." digits ] | "." digits
\* | "inf" | "nan"; everything else raises ValueError.
ParseUnsigned(s) ==
    IF s = <<"nan">> THEN NaN
    ELSE IF s = <<"inf">> THEN Inf(1)
    ELSE IF s = <<>> THEN NoFloat
    ELSE LET dots == {i \in 1..Len(s) : s[i] = "."}
         IN  IF dots = {}
             THEN IF AllDigits(s) THEN Norm(NatOf(s), 0) ELSE NoFloat
             ELSE IF Cardinality(dots) > 1 THEN NoFloat
             ELSE LET d == CHOOSE i \in dots : TRUE
                      ip == SubSeq(s, 1, d - 1)
                      fp == SubSeq(s, d + 1, Len(s))
                  IN  IF Len(s) = 1 \/ ~AllDigits(ip) \/ ~AllDigits(fp)
                      THEN NoFloat
                      ELSE Norm(NatOf(ip \o fp), Len(fp))

Negate(v) == IF v.k = "ValueError" \/ v.k = "nan" THEN v
             ELSE [v EXCEPT !.m = 0 - v.m]

\* float(): an optional sign, then an unsigned literal.
ParseFloat(s) ==
    IF s # <<>> /\ s[1] = "-" THEN Negate(ParseUnsigned(Tail(s)))
    ELSE IF s # <<>> /\ s[1] = "+" THEN ParseUnsigned(Tail(s))
    ELSE ParseUnsigned(s)

\* Mutant of FloatGE: the comparison is strict, the boundary excluded.
FloatGT(a, b) ==
    IF a.k = "nan" \/ b.k = "nan" THEN FALSE
    ELSE IF a.k = "inf" THEN a.m > 0 /\ ~(b.k = "inf" /\ b.m > 0)
    ELSE IF b.k = "inf" THEN b.m < 0
    ELSE a.m * Pow10(b.e) > b.m * Pow10(a.e)

\* a >= b on floats (every comparison with nan is false).
FloatGE(a, b) ==
    IF a.k = "nan" \/ b.k = "nan" THEN FALSE
    ELSE IF a.k = "inf" THEN a.m > 0 \/ (b.k = "inf" /\ b.m < 0)
    ELSE IF b.k = "inf" THEN b.m < 0
    ELSE a.m * Pow10(b.e) >= b.m * Pow10(a.e)

RECURSIVE DigitsOf(_)
DigitsOf(n) == IF n < 10 THEN <<Digits[n + 1]>>
               ELSE DigitsOf(n \div 10) \o <<Digits[(n % 10) + 1]>>

\* The tenths nearest to the decimal m / 10^e.  On a tie the result depends
\* on which side of the midpoint the binary double of the decimal lies
\* (79.95 renders 80.0, 85.35 renders 85.3): tieUp is that side.
Tenths(m, e, tieUp) ==
    IF e <= 1 THEN m * Pow10(1 - e)
    ELSE LET unit == Pow10(e - 1)
             q == m \div unit
             r == m % unit
         IN  IF 2 * r > unit THEN q + 1
             ELSE IF 2 * r < unit THEN q
             ELSE IF tieUp THEN q + 1 ELSE q

\* f"{v:.1f}"
Format1f(v, tieUp) ==
    IF v.k = "nan" THEN <<"nan">>
    ELSE IF v.k = "inf" THEN (IF v.m < 0 THEN <<"-", "inf">> ELSE <<"inf">>)
    ELSE LET t == Tenths(v.m, v.e, tieUp)
             a == IF t < 0 THEN 0 - t ELSE t
         IN  (IF v.m < 0 THEN <<"-">> ELSE <<>>)
             \o DigitsOf(a \div 10) \o <<".", Digits[(a % 10) + 1]>>

(***************************************************************************)
(* Topics                                                                  *)
(***************************************************************************)
\* str.startswith: token-wise, which agrees with character-wise because no
\* word of the model is a proper prefix of another word in the same place.
StartsWith(s, p) == Len(s) >= Len(p) /\ SubSeq(s, 1, Len(p)) = p

\* str.split("/"): the segments between the separators, an empty segment
\* between two adjacent separators and after a trailing one.
RECURSIVE SplitFrom(_, _, _)
SplitFrom(s, i, cur) ==
    IF i > Len(s) THEN <<cur>>
    ELSE IF s[i] = "/" THEN <<cur>> \o SplitFrom(s, i + 1, <<>>)
    ELSE SplitFrom(s, i + 1, Append(cur, s[i]))

Split(s) == SplitFrom(s, 1, <<>>)

\* The topic filters DataManager._on_connect subscribes to.
Subscriptions ==
    { BASE_TOPIC \o <<"+", "/", "fill_level">>,
      BASE_TOPIC \o <<"+", "/", "status">>,
      BASE_TOPIC \o <<"+", "/", "actuator_state">>,
      ALARM_TOPIC }

\* MQTT filter matching for the filters above (levels compared one by one,
\* "+" matches exactly one level, possibly empty).
MatchesFilter(topic, filter) ==
    LET t == Split(topic)
        f == Split(filter)
    IN  /\ Len(t) = Len(f)
        /\ \A i \in 1..Len(f) : f[i] = <<"+">> \/ f[i] = t[i]

Subscribed(topic) == \E f \in Subscriptions : MatchesFilter(topic, f)

(***************************************************************************)
(* Payloads                                                                *)
(***************************************************************************)
\* A byte string that is not valid UTF-8 is the one-token payload <0xFF>.
Undecodable == <<"<0xFF>">>

\* bytes.decode() raises UnicodeDecodeError on invalid UTF-8.
Decodes(payload) == \A i \in 1..Len(payload) : payload[i] # "<0xFF>"

Quote == "\""

\* json.dumps(alarm_data): four string members in insertion order.
JsonDumps(d) ==
    <<"{", Quote, "bin_id", Quote, ":", Quote>> \o d.bin_id
    \o <<Quote, ",", Quote, "type", Quote, ":", Quote, d.type>>
    \o <<Quote, ",", Quote, "message", Quote, ":", Quote>> \o d.message
    \o <<Quote, ",", Quote, "timestamp", Quote, ":", Quote>> \o d.timestamp
    \o <<Quote, "}">>

\* The positions of the quotes of a token sequence, in order.
RECURSIVE QuotesFrom(_, _)
QuotesFrom(s, i) ==
    IF i > Len(s) THEN <<>>
    ELSE IF s[i] = Quote THEN <<i>> \o QuotesFrom(s, i + 1)
    ELSE QuotesFrom(s, i + 1)

\* json.loads(payload) of an alarm notification (BinMonitorGUI._on_message):
\* the n-th quoted string is between quotes 2n-1 and 2n; the members are
\* the strings 2, 4, 6 and 8.
JsonLoads(s) ==
    LET q == QuotesFrom(s, 1)
        str(n) == SubSeq(s, q[2 * n - 1] + 1, q[2 * n] - 1)
    IN  [bin_id |-> str(2), type |-> str(4)[1], message |-> str(6),
         timestamp |-> str(8)]

(***************************************************************************)
(* State                                                                   *)
(***************************************************************************)
VARIABLES
    bin_readings,   \* table bin_readings: rows in insertion order
    bin_events,     \* table bin_events
    bin_alarms,     \* table bin_alarms
    published,      \* what the data manager has published, in order
    now,            \* the wall clock, in seconds (CURRENT_TIMESTAMP); the
                    \* pipeline never reads it back, and it stands still
                    \* while the messages of one run are handled
    handled,        \* number of messages _on_message has been called with
    last,           \* the last call of _on_message: its message, the store
                    \* before it (pre), the store and bus operations it
                    \* attempted, in program order, the error lines it
                    \* logged and the exception that left it
    smart_bin,      \* a SmartBinSystem: its sensor, actuator and panel
    bus,            \* what the bin system has published and the broker
                    \* has not yet routed, in order
    call,           \* the last call of the store interface of the data
                    \* manager (acknowledge_alarm, get_active_alarms, the
                    \* constructor): its argument, the store before and
                    \* after it (pre, post), what it returned, logged and
                    \* raised, the operations it attempted (ops), the
                    \* tables of the database file when it returned, and
                    \* n, the number of such calls so far
    acked,          \* the alarm ids that have been seen acknowledged
    gui,            \* a BinMonitorGUI: its alarm list, its bin widgets and
                    \* its status line
    created         \* the ids the alarms have been stored with, in the
                    \* order the alarms were created

vars == <<bin_readings, bin_events, bin_alarms, published, now, handled, last,
          smart_bin, bus, call, acked, gui, created>>

dmvars == <<bin_readings, bin_events, bin_alarms, published, now, handled,
            last, created>>

apivars == <<call, acked, gui>>

(***************************************************************************)
(* Exceptions.  A handler's outcome is a record st: the tables, the        *)
(* publications, ops (the operations attempted, in program order), exc,    *)
(* the exception                                                           *)
(* that is propagating ("None" when there is none), and log, the lines     *)
(* logger.error wrote during the call.                                     *)
(***************************************************************************)
\* An "except cls" clause catches exc (UnicodeDecodeError is a ValueError).
Catches(cls, exc) ==
    /\ exc # "None"
    /\ \/ cls = "Exception"
       \/ cls = exc
       \/ cls = "ValueError" /\ exc = "UnicodeDecodeError"

\* try: <st> except cls: logger.error(line)
Try(st, cls, line) ==
    IF Catches(cls, st.exc)
    THEN [st EXCEPT !.exc = "None", !.log = Append(@, line)]
    ELSE st

Raise(st, exc) == [st EXCEPT !.exc = exc]

Log(st, op, ok) == [st EXCEPT !.ops = Append(@, [op |-> op, ok |-> ok])]

\* The faults the environment can inject into one call: the first INSERT,
\* the INSERT into bin_alarms, or client.publish fails.
Faults == {"insert", "alarm_insert", "publish"}

\* INTEGER PRIMARY KEY AUTOINCREMENT: one more than the largest id so far.
NextId(table) == Len(table) + 1

(***************************************************************************)
(* DataManager                                                             *)
(***************************************************************************)
\* Mutant of CreateAlarm: the notification is published before the INSERT.
CreateAlarmPublishFirst(st, bin_id, alarm_type, message, faults, t) ==
    LET row == [id |-> NextId(st.alarms), bin_id |-> bin_id,
                alarm_type |-> alarm_type, message |-> message,
                acknowledged |-> FALSE, timestamp |-> t]
        alarm_data == [bin_id |-> bin_id, type |-> alarm_type,
                       message |-> message, timestamp |-> DigitsOf(t)]
        note == [topic |-> ALARM_TOPIC, payload |-> JsonDumps(alarm_data)]
        s1 == IF "publish" \in faults
              THEN Raise(Log(st, "publish", FALSE), "Exception")
              ELSE Log([st EXCEPT !.published = Append(@, note)],
                       "publish", TRUE)
        s2 == IF s1.exc # "None" THEN s1
              ELSE IF "alarm_insert" \in faults
              THEN Raise(Log(s1, "INSERT bin_alarms", FALSE), "sqlite3.Error")
              ELSE Log([s1 EXCEPT !.alarms = Append(@, row)],
                       "INSERT bin_alarms", TRUE)
    IN  Try(s2, "Exception", "Error creating alarm")

\* _create_alarm: INSERT the alarm, then publish it; any exception is logged.
CreateAlarm(st, bin_id, alarm_type, message, faults, t) ==
    LET row == [id |-> NextId(st.alarms), bin_id |-> bin_id,
                alarm_type |-> alarm_type, message |-> message,
                acknowledged |-> FALSE, timestamp |-> t]
        s1 == IF "alarm_insert" \in faults
              THEN Raise(Log(st, "INSERT bin_alarms", FALSE), "sqlite3.Error")
              ELSE Log([st EXCEPT !.alarms = Append(@, row)],
                       "INSERT bin_alarms", TRUE)
        alarm_data == [bin_id |-> bin_id, type |-> alarm_type,
                       message |-> message, timestamp |-> DigitsOf(t)]
        note == [topic |-> ALARM_TOPIC, payload |-> JsonDumps(alarm_data)]
        s2 == IF s1.exc # "None" THEN s1
              ELSE IF "publish" \in faults
              THEN Raise(Log(s1, "publish", FALSE), "Exception")
              ELSE Log([s1 EXCEPT !.published = Append(@, note)],
                       "publish", TRUE)
    IN  Try(s2, "Exception", "Error creating alarm")

\* f"Bin {bin_id} is {fill_level:.1f}% full"
HighFillMessage(bin_id, fill_level, tieUp) ==
    <<"Bin ">> \o bin_id \o <<" is ">> \o Format1f(fill_level, tieUp)
    \o <<"% full">>

\* Mutant of HandleFillLevel: the alarm rule ignores the threshold.
HandleFillLevelNoThreshold(st, bin_id, fill_level, faults, t, tieUp) ==
    LET row == [id |-> NextId(st.readings), bin_id |-> bin_id,
                fill_level |-> fill_level, timestamp |-> t]
        s1 == IF "insert" \in faults \/ fill_level.k = "nan"
              THEN Raise(Log(st, "INSERT bin_readings", FALSE), "sqlite3.Error")
              ELSE Log([st EXCEPT !.readings = Append(@, row)],
                       "INSERT bin_readings", TRUE)
        s2 == IF s1.exc # "None" THEN s1
              ELSE CreateAlarm(s1, bin_id, "HIGH_FILL",
                               HighFillMessage(bin_id, fill_level, tieUp),
                               faults, t)
    IN  Try(s2, "sqlite3.Error", "Database error storing fill level")

\* Mutant of HandleFillLevel: the alarm rule is evaluated before the
\* reading is stored.
HandleFillLevelAlarmFirst(st, bin_id, fill_level, faults, t, tieUp) ==
    LET row == [id |-> NextId(st.readings), bin_id |-> bin_id,
                fill_level |-> fill_level, timestamp |-> t]
        s1 == IF FloatGE(fill_level, BIN_FILL_LEVEL_THRESHOLD)
              THEN CreateAlarm(st, bin_id, "HIGH_FILL",
                               HighFillMessage(bin_id, fill_level, tieUp),
                               faults, t)
              ELSE st
        s2 == IF "insert" \in faults \/ fill_level.k = "nan"
              THEN Raise(Log(s1, "INSERT bin_readings", FALSE), "sqlite3.Error")
              ELSE Log([s1 EXCEPT !.readings = Append(@, row)],
                       "INSERT bin_readings", TRUE)
    IN  Try(s2, "sqlite3.Error", "Database error storing fill level")

\* _handle_fill_level: INSERT the reading (a nan is NULL to SQLite and
\* violates NOT NULL), then the alarm rule; sqlite3.Error is logged.
HandleFillLevel(st, bin_id, fill_level, faults, t, tieUp) ==
    LET row == [id |-> NextId(st.readings), bin_id |-> bin_id,
                fill_level |-> fill_level, timestamp |-> t]
        s1 == IF "insert" \in faults \/ fill_level.k = "nan"
              THEN Raise(Log(st, "INSERT bin_readings", FALSE), "sqlite3.Error")
              ELSE Log([st EXCEPT !.readings = Append(@, row)],
                       "INSERT bin_readings", TRUE)
        s2 == IF s1.exc # "None" THEN s1
              ELSE IF FloatGE(fill_level, BIN_FILL_LEVEL_THRESHOLD)
              THEN CreateAlarm(s1, bin_id, "HIGH_FILL",
                               HighFillMessage(bin_id, fill_level, tieUp),
                               faults, t)
              ELSE s1
    IN  Try(s2, "sqlite3.Error", "Database error storing fill level")

\* Mutant of InsertEvent: the event of a bin replaces the stored events
\* (INSERT OR REPLACE on a table with one row).
InsertEventReplace(st, bin_id, event_type, details, faults, t) ==
    LET row == [id |-> NextId(st.events), bin_id |-> bin_id,
                event_type |-> event_type, details |-> details,
                timestamp |-> t]
    IN  IF "insert" \in faults
        THEN Raise(Log(st, "INSERT bin_events", FALSE), "sqlite3.Error")
        ELSE Log([st EXCEPT !.events = <<row>>],
                 "INSERT bin_events", TRUE)

\* The INSERT into bin_events of _handle_status and _handle_actuator_state.
InsertEvent(st, bin_id, event_type, details, faults, t) ==
    LET row == [id |-> NextId(st.events), bin_id |-> bin_id,
                event_type |-> event_type, details |-> details,
                timestamp |-> t]
    IN  IF "insert" \in faults
        THEN Raise(Log(st, "INSERT bin_events", FALSE), "sqlite3.Error")
        ELSE Log([st EXCEPT !.events = Append(@, row)],
                 "INSERT bin_events", TRUE)

\* Mutant of HandleStatus: the alarm rule of the actuator states is
\* applied to a status as well.
HandleStatusErrorAlarm(st, bin_id, status, faults, t) ==
    LET s1 == InsertEvent(st, bin_id, "STATUS_CHANGE", status, faults, t)
        s2 == IF s1.exc # "None" THEN s1
              ELSE IF status = <<"ERROR">>
              THEN CreateAlarm(s1, bin_id, "ACTUATOR_ERROR",
                               <<"Bin ">> \o bin_id
                               \o <<" actuator reported an error">>,
                               faults, t)
              ELSE s1
    IN  Try(s2, "sqlite3.Error", "Database error storing status")

\* _handle_status
HandleStatus(st, bin_id, status, faults, t) ==
    Try(InsertEvent(st, bin_id, "STATUS_CHANGE", status, faults, t),
        "sqlite3.Error", "Database error storing status")

\* f"Bin {bin_id} actuator reported an error"
ActuatorErrorMessage(bin_id) ==
    <<"Bin ">> \o bin_id \o <<" actuator reported an error">>

\* Mutant of HandleActuatorState: every state raises the alarm.
HandleActuatorStateAnyAlarm(st, bin_id, state, faults, t) ==
    LET s1 == InsertEvent(st, bin_id, "ACTUATOR_STATE", state, faults, t)
        s2 == IF s1.exc # "None" THEN s1
              ELSE CreateAlarm(s1, bin_id, "ACTUATOR_ERROR",
                               ActuatorErrorMessage(bin_id), faults, t)
    IN  Try(s2, "sqlite3.Error", "Database error storing actuator state")

\* _handle_actuator_state
HandleActuatorState(st, bin_id, state, faults, t) ==
    LET s1 == InsertEvent(st, bin_id, "ACTUATOR_STATE", state, faults, t)
        s2 == IF s1.exc # "None" THEN s1
              ELSE IF state = <<"ERROR">>
              THEN CreateAlarm(s1, bin_id, "ACTUATOR_ERROR",
                               ActuatorErrorMessage(bin_id), faults, t)
              ELSE s1
    IN  Try(s2, "sqlite3.Error", "Database error storing actuator state")

\* Mutant of Dispatch: a payload that is no number is stored as 0.0.
DispatchParseDefault(st, bin_id, data_type, payload, faults, t, tieUp) ==
    IF data_type = <<"fill_level">>
    THEN LET parsed == ParseFloat(payload)
             fill_level == IF parsed.k = "ValueError" THEN Norm(0, 0)
                           ELSE parsed
         IN  Try(HandleFillLevel(st, bin_id, fill_level, faults, t, tieUp),
                 "ValueError", "Invalid fill level value")
    ELSE IF data_type = <<"status">>
    THEN HandleStatus(st, bin_id, payload, faults, t)
    ELSE IF data_type = <<"actuator_state">>
    THEN HandleActuatorState(st, bin_id, payload, faults, t)
    ELSE st

\* Mutant of Dispatch: a kind that is not known is recorded as a status.
DispatchElseStatus(st, bin_id, data_type, payload, faults, t, tieUp) ==
    IF data_type = <<"fill_level">>
    THEN LET fill_level == ParseFloat(payload)
         IN  Try(IF fill_level.k = "ValueError"
                 THEN Raise(st, "ValueError")
                 ELSE HandleFillLevel(st, bin_id, fill_level, faults, t, tieUp),
                 "ValueError", "Invalid fill level value")
    ELSE IF data_type = <<"actuator_state">>
    THEN HandleActuatorState(st, bin_id, payload, faults, t)
    ELSE HandleStatus(st, bin_id, payload, faults, t)

\* The dispatch of _on_message on the last topic segment.
Dispatch(st, bin_id, data_type, payload, faults, t, tieUp) ==
    IF data_type = <<"fill_level">>
    THEN LET fill_level == ParseFloat(payload)
         IN  Try(IF fill_level.k = "ValueError"
                 THEN Raise(st, "ValueError")
                 ELSE HandleFillLevel(st, bin_id, fill_level, faults, t, tieUp),
                 "ValueError", "Invalid fill level value")
    ELSE IF data_type = <<"status">>
    THEN HandleStatus(st, bin_id, payload, faults, t)
    ELSE IF data_type = <<"actuator_state">>
    THEN HandleActuatorState(st, bin_id, payload, faults, t)
    ELSE st

\* Mutant of OnMessage: the body is not wrapped in try/except Exception.
OnMessageUncaught(st, topic, payload, faults, t, tieUp) ==
    LET topic_parts == Split(topic)
        n == Len(topic_parts)
    IN  IF ~StartsWith(topic, BASE_TOPIC) /\ topic # ALARM_TOPIC THEN st
        ELSE IF n < 3 THEN st
        ELSE IF ~Decodes(payload) THEN Raise(st, "UnicodeDecodeError")
        ELSE Dispatch(st, topic_parts[n - 1], topic_parts[n], payload,
                      faults, t, tieUp)

\* _on_message
OnMessage(st, topic, payload, faults, t, tieUp) ==
    LET topic_parts == Split(topic)
        n == Len(topic_parts)
        body ==
            IF ~StartsWith(topic, BASE_TOPIC) /\ topic # ALARM_TOPIC THEN st
            ELSE IF n < 3 THEN st
            ELSE IF ~Decodes(payload) THEN Raise(st, "UnicodeDecodeError")
            ELSE Dispatch(st, topic_parts[n - 1], topic_parts[n], payload,
                          faults, t, tieUp)
    IN  Try(body, "Exception", "Error processing message")

(***************************************************************************)
(* The store interface of the data manager.  An alarm id handed to         *)
(* acknowledge_alarm is a Python int, modelled by its decimal digits: it   *)
(* has no width, whereas SQLite binds a signed 64-bit INTEGER.             *)
(***************************************************************************)
\* 2^63 - 1, the largest int sqlite3 binds to a "?" of a statement.
SqliteMaxInteger ==
    <<"9", "2", "2", "3", "3", "7", "2", "0", "3", "6", "8", "5", "4", "7",
      "7", "5", "8", "0", "7">>

\* a <= b for two digit sequences of the same length.
RECURSIVE DigitsLE(_, _)
DigitsLE(a, b) ==
    IF a = <<>> THEN TRUE
    ELSE IF DigitVal(a[1]) < DigitVal(b[1]) THEN TRUE
    ELSE IF DigitVal(a[1]) > DigitVal(b[1]) THEN FALSE
    ELSE DigitsLE(Tail(a), Tail(b))

\* The int binds to a parameter; otherwise cursor.execute raises
\* OverflowError (which is not a sqlite3.Error).
BindsInteger(d) ==
    \/ Len(d) < Len(SqliteMaxInteger)
    \/ Len(d) = Len(SqliteMaxInteger) /\ DigitsLE(d, SqliteMaxInteger)

\* UPDATE bin_alarms SET acknowledged = TRUE WHERE id = ?
SetAcknowledged(alarms, alarm_id) ==
    [i \in 1..Len(alarms) |->
        IF DigitsOf(alarms[i].id) = alarm_id
        THEN [alarms[i] EXCEPT !.acknowledged = TRUE]
        ELSE alarms[i]]

\* acknowledge_alarm: sqlite3.Error is logged, anything else propagates.
AcknowledgeAlarm(st, alarm_id, faults) ==
    LET s1 == IF ~BindsInteger(alarm_id)
              THEN Raise(Log(st, "UPDATE bin_alarms", FALSE), "OverflowError")
              ELSE IF "update" \in faults
              THEN Raise(Log(st, "UPDATE bin_alarms", FALSE), "sqlite3.Error")
              ELSE Log([st EXCEPT !.alarms = SetAcknowledged(@, alarm_id)],
                       "UPDATE bin_alarms", TRUE)
    IN  Try(s1, "sqlite3.Error", "Error acknowledging alarm")

\* The indices of the rows a query selects, in an order ORDER BY timestamp
\* DESC allows: SQL leaves the order of rows with equal timestamps open.
OrderByTimestampDesc(table, selected) ==
    LET n == Cardinality(selected)
    IN  { p \in [1..n -> selected] :
            /\ \A i, j \in 1..n : i # j => p[i] # p[j]
            /\ \A i, j \in 1..n :
                 i < j => table[p[i]].timestamp >= table[p[j]].timestamp }

\* WHERE acknowledged = FALSE
Unacknowledged(alarms) == {i \in 1..Len(alarms) : ~alarms[i].acknowledged}

\* The text SQLite returns for a DATETIME DEFAULT CURRENT_TIMESTAMP column
\* (UTC, seconds) and datetime.now().isoformat() (local time, microseconds)
\* differ for one and the same instant t.
SqlDateTime(t) == DigitsOf(t) \o <<" UTC">>

\* Mutant of GetActiveAlarms: the WHERE clause is missing.
GetActiveAlarmsAll(st, faults, p) ==
    IF "select" \in faults
    THEN [st |-> Try(Raise(Log(st, "SELECT bin_alarms", FALSE),
                           "sqlite3.Error"),
                     "sqlite3.Error", "Error fetching alarms"),
          rows |-> <<>>]
    ELSE [st |-> Log(st, "SELECT bin_alarms", TRUE),
          rows |-> [i \in 1..Len(st.alarms) |->
                      [bin_id |-> st.alarms[i].bin_id,
                       alarm_type |-> st.alarms[i].alarm_type,
                       message |-> st.alarms[i].message,
                       timestamp |-> SqlDateTime(st.alarms[i].timestamp)]]]

\* get_active_alarms: the rows cursor.fetchall() returns, in the order p
\* (one of OrderByTimestampDesc); [] when the query raises sqlite3.Error.
GetActiveAlarms(st, faults, p) ==
    IF "select" \in faults
    THEN [st |-> Try(Raise(Log(st, "SELECT bin_alarms", FALSE),
                           "sqlite3.Error"),
                     "sqlite3.Error", "Error fetching alarms"),
          rows |-> <<>>]
    ELSE [st |-> Log(st, "SELECT bin_alarms", TRUE),
          rows |-> [i \in 1..Len(p) |->
                      [bin_id |-> st.alarms[p[i]].bin_id,
                       alarm_type |-> st.alarms[p[i]].alarm_type,
                       message |-> st.alarms[p[i]].message,
                       timestamp |-> SqlDateTime(st.alarms[p[i]].timestamp)]]]

\* get_bin_data: the first limit rows of the bin's readings in the order p
\* (one of OrderByTimestampDesc); [] when the query raises sqlite3.Error.
GetBinData(st, id, limit, faults, p) ==
    IF "select" \in faults
    THEN [st |-> Try(Raise(Log(st, "SELECT bin_readings", FALSE),
                           "sqlite3.Error"),
                     "sqlite3.Error", "Error fetching bin data"),
          rows |-> <<>>]
    ELSE LET n == IF Len(p) < limit THEN Len(p) ELSE limit
         IN  [st |-> Log(st, "SELECT bin_readings", TRUE),
              rows |-> [i \in 1..n |->
                          [fill_level |-> st.readings[p[i]].fill_level,
                           timestamp |->
                               SqlDateTime(st.readings[p[i]].timestamp)]]]

RequiredTables == {"bin_readings", "bin_events", "bin_alarms"}

\* Mutant of InitDatabase: CREATE TABLE IF NOT EXISTS without the DROPs.
InitDatabaseKeep(st, fails) ==
    IF fails
    THEN [Raise(Log(st, "DROP TABLE", FALSE), "sqlite3.Error")
            EXCEPT !.log = Append(@, "Database error during initialization")]
    ELSE Log([st EXCEPT !.tables = RequiredTables], "DROP TABLE", TRUE)

\* init_database: the three tables are dropped and created again, empty
\* (dropping a table also forgets its AUTOINCREMENT counter).  When it
\* fails (the database cannot be opened or is locked) the error is logged
\* and raised again.
InitDatabase(st, fails) ==
    IF fails
    THEN [Raise(Log(st, "DROP TABLE", FALSE), "sqlite3.Error")
            EXCEPT !.log = Append(@, "Database error during initialization")]
    ELSE Log([st EXCEPT !.readings = <<>>, !.events = <<>>, !.alarms = <<>>,
                        !.tables = RequiredTables],
             "DROP TABLE", TRUE)

\* DataManager.__init__ up to _setup_mqtt: a database file that does not
\* exist is initialised; an existing one is initialised again when a
\* required table is missing or when the verifying query raises
\* sqlite3.Error.  The call for a missing table is inside the try, so its
\* sqlite3.Error is caught and init_database is called once more.
DataManagerInit(st, exists, tables, faults) ==
    IF ~exists THEN InitDatabase(st, "init" \in faults)
    ELSE IF "verify" \in faults
    THEN InitDatabase(
             [Log(st, "SELECT sqlite_master", FALSE)
                 EXCEPT !.log = Append(@, "Error verifying database tables")],
             "init" \in faults)
    ELSE IF ~(RequiredTables \subseteq tables)
    THEN LET s1 == InitDatabase(Log(st, "SELECT sqlite_master", TRUE),
                                "init" \in faults)
         IN  IF Catches("sqlite3.Error", s1.exc)
             THEN InitDatabase(Try(s1, "sqlite3.Error",
                                   "Error verifying database tables"),
                               "init_again" \in faults)
             ELSE s1
    ELSE Log(st, "SELECT sqlite_master", TRUE)

\* DataManager._setup_mqtt: client.connect raises OSError when the broker
\* cannot be reached; the exception is logged and raised again.
SetupMqtt(st, faults) ==
    IF "connect" \in faults
    THEN [Raise(Log(st, "connect", FALSE), "OSError")
            EXCEPT !.log = Append(@, "MQTT setup error")]
    ELSE Log(st, "connect", TRUE)

\* DataManager.__init__: the store, then the transport; an exception of
\* either leaves the constructor.
DataManagerNew(st, exists, tables, faults) ==
    LET s1 == DataManagerInit(st, exists, tables, faults)
    IN  IF s1.exc # "None" THEN s1 ELSE SetupMqtt(s1, faults)

(***************************************************************************)
(* The messages of the model                                               *)
(***************************************************************************)
FillTopic(bin) == BASE_TOPIC \o <<bin, "/", "fill_level">>
StatusTopic(bin) == BASE_TOPIC \o <<bin, "/", "status">>
ActuatorTopic(bin) == BASE_TOPIC \o <<bin, "/", "actuator_state">>

Msg(topic, payload) == [topic |-> topic, payload |-> payload]

\* Messages the broker may hand to the data manager: every kind with the
\* payloads that make its handler's cases happen, and topics that are not
\* of the form base/<bin-id>/<kind>.
Messages ==
    { Msg(FillTopic("bin_1"), p) :
        p \in { <<"8", "5", ".", "3">>, <<"8", "0">>,
                <<"7", "9", ".", "9", "5">>, <<"8", "5", ".", "3", "5">>,
                <<"nan">>, <<"not_a_number">>, Undecodable } }
    \cup { Msg(StatusTopic("bin_1"), p) :
             p \in { <<"Normal">>, <<"ERROR">>, <<>> } }
    \cup { Msg(ActuatorTopic("bin_2"), p) : p \in { <<"ERROR">>, <<"IDLE">> } }
    \cup { Msg(t, <<"8", "5", ".", "3">>) :
             t \in { BASE_TOPIC \o <<"fill_level">>,
                     BASE_TOPIC \o <<"bin_1", "/", "temperature">>,
                     <<"other", "/", "bin_1", "/", "fill_level">> } }
    \cup { Msg(BASE_TOPIC \o <<"depot", "/", "bin_1", "/", "actuator_state">>,
               <<"ERROR">>) }

(***************************************************************************)
(* SmartBinSystem with its UltrasonicSensor, BinActuator and ControlPanel. *)
(* A bin system is a record b; out is what a handler has published so far. *)
(* Sensor levels and fill rates are counted in hundredths.                 *)
(***************************************************************************)
\* f"bin_{random.randint(1000, 9999)}": one of the ids.
bin_id == "bin_4711"

\* The steps of BinActuator._emptying_sequence.
Sequence == <<"OPENING", "EMPTYING", "CLOSING", "IDLE">>

\* What the knob of the control panel is moved to, and the noise of one
\* measurement (random.uniform(-0.2, 0.2)), in hundredths.
RateChoices == {0, 1000}
Noises == {0 - 20, 20}

\* The topic SmartBinSystem._on_actuator_state_change publishes on:
\* f"{BASE_TOPIC}/{self.bin_id}/actuator_state", BASE_TOPIC ending in "/".
ActuatorStateTopic(id) == BASE_TOPIC \o <<"/", id, "/", "actuator_state">>

Publish(b, topic, payload) == [b EXCEPT !.out = Append(@, Msg(topic, payload))]

\* BinActuator.trigger_empty
TriggerEmpty(b) ==
    IF ~b.is_powered THEN b
    ELSE IF b.current_state # "IDLE" THEN b
    ELSE [b EXCEPT !.threads = Append(@, 1)]

\* SmartBinSystem._on_sensor_data
OnSensorData(b, fill_level, tieUp) ==
    LET b1 == Publish(b, FillTopic(bin_id), Format1f(Norm(fill_level, 2), tieUp))
        status == IF fill_level >= 8000 THEN <<"Needs Emptying">>
                  ELSE IF fill_level <= 500 THEN <<"Recently Emptied">>
                  ELSE <<"Normal">>
        b2 == IF fill_level >= 8000 /\ b1.current_state = "IDLE"
              THEN TriggerEmpty(b1) ELSE b1
    IN  Publish(b2, StatusTopic(bin_id), status)

\* UltrasonicSensor.simulate_emptying
SimulateEmptying(b) == OnSensorData([b EXCEPT !.current_level = 0], 0, FALSE)

\* Mutant of OnActuatorStateChange: IDLE does not reset the sensor.
OnActuatorStateChangeNoReset(b, state) ==
    Publish(b, ActuatorStateTopic(bin_id), <<state>>)

\* SmartBinSystem._on_actuator_state_change
OnActuatorStateChange(b, state) ==
    LET b1 == IF state = "IDLE" THEN SimulateEmptying(b) ELSE b
    IN  Publish(b1, ActuatorStateTopic(bin_id), <<state>>)

\* BinActuator._update_state
UpdateState(b, new_state) ==
    OnActuatorStateChange([b EXCEPT !.current_state = new_state], new_state)

\* BinActuator.power_on
ActuatorPowerOn(b) == UpdateState([b EXCEPT !.is_powered = TRUE], "IDLE")

\* BinActuator.power_off; the join gives up after a second and leaves a
\* running sequence running.
ActuatorPowerOff(b) == UpdateState([b EXCEPT !.is_powered = FALSE], "IDLE")

\* UltrasonicSensor.start
SensorStart(b) ==
    IF ~b.is_running
    THEN [b EXCEPT !.is_running = TRUE, !.loops = @ + 1]
    ELSE b

\* UltrasonicSensor.stop; the join gives up after a second, so the loop
\* may still be asleep when stop returns.
SensorStop(b) == [b EXCEPT !.is_running = FALSE]

\* SmartBinSystem._on_power_change
OnPowerChange(b, is_on) ==
    IF is_on THEN ActuatorPowerOn(SensorStart(b))
    ELSE ActuatorPowerOff(SensorStop(b))

\* UltrasonicSensor.set_fill_rate
SetFillRate(b, rate) ==
    [b EXCEPT !.fill_rate = IF rate < 0 THEN 0
                            ELSE IF rate > 1000 THEN 1000 ELSE rate]

\* One pass of the body of UltrasonicSensor._measurement_loop.
Measure(b, noise, tieUp) ==
    IF b.current_level < 10000
    THEN LET sum == b.current_level + b.fill_rate + noise
             level == IF sum > 10000 THEN 10000 ELSE sum
         IN  OnSensorData([b EXCEPT !.current_level = level,
                                    !.measured = @ + 1], level, tieUp)
    ELSE b

\* A bin system after SmartBinSystem.__init__: the sensor idle at level
\* 0.0 with fill rate 1.0, the actuator IDLE and unpowered, the power
\* button showing "Power ON".  off records that the last thing the power
\* button did was to switch the bin system off.
NewBin == [is_powered |-> FALSE, current_state |-> "IDLE", threads |-> <<>>,
           is_running |-> FALSE, loops |-> 0, current_level |-> 0,
           fill_rate |-> 100, power |-> FALSE, measured |-> 0,
           out |-> <<>>, off |-> FALSE]

(***************************************************************************)
(* BinMonitorGUI.  A monitoring view is a record g: alarm_tree, the items  *)
(* of the alarm list from top to bottom; bins, the bin widgets in the      *)
(* order they were created; status_var, the status line.  An item of the   *)
(* alarm list carries "of", the id of the stored alarm it displays, which  *)
(* the program itself knows only for the items a poll inserted (tags).     *)
(***************************************************************************)
\* str.replace(old, ""): every occurrence of old is removed.
RECURSIVE Replace(_, _)
Replace(s, old) ==
    IF Len(s) < Len(old) THEN s
    ELSE IF SubSeq(s, 1, Len(old)) = old
    THEN Replace(SubSeq(s, Len(old) + 1, Len(s)), old)
    ELSE <<s[1]>> \o Replace(Tail(s), old)

HasWidget(g, id) == \E i \in 1..Len(g.bins) : g.bins[i].bin_id = id

\* BinMonitorGUI._create_bin_widget
CreateBinWidget(g, id) ==
    [g EXCEPT !.bins = Append(@, [bin_id |-> id, level_var |-> <<"0.0%">>,
                                  status_var |-> <<"Unknown">>,
                                  progress |-> Norm(0, 0),
                                  style |-> "Green"])]

\* BinMonitorGUI._update_bin_level
UpdateBinLevel(g, id, level, tieUp) ==
    LET g1 == IF HasWidget(g, id) THEN g ELSE CreateBinWidget(g, id)
        style == IF FloatGE(level, Norm(80, 0)) THEN "Red"
                 ELSE IF FloatGE(level, Norm(60, 0)) THEN "Yellow"
                 ELSE "Green"
    IN  [g1 EXCEPT !.bins =
            [i \in 1..Len(g1.bins) |->
                IF g1.bins[i].bin_id = id
                THEN [g1.bins[i] EXCEPT
                        !.level_var = Format1f(level, tieUp) \o <<"%">>,
                        !.progress = level, !.style = style]
                ELSE g1.bins[i]]]

\* BinMonitorGUI._update_bin_status
UpdateBinStatus(g, id, status) ==
    LET g1 == IF HasWidget(g, id) THEN g ELSE CreateBinWidget(g, id)
    IN  [g1 EXCEPT !.bins =
            [i \in 1..Len(g1.bins) |->
                IF g1.bins[i].bin_id = id
                THEN [g1.bins[i] EXCEPT !.status_var = status]
                ELSE g1.bins[i]]]

\* BinMonitorGUI._handle_alarm: the notification goes to the top of the
\* alarm list, whatever the list already shows.
HandleAlarm(g, alarm_data, of) ==
    [g EXCEPT
        !.alarm_tree =
            <<[values |-> <<alarm_data.timestamp, alarm_data.bin_id,
                            <<alarm_data.type>>, alarm_data.message>>,
               tags |-> <<"alarm">>, of |-> of]>> \o @,
        !.status_var = <<"New alarm: ">> \o alarm_data.message]

\* BinMonitorGUI._on_message with the callback it schedules on the main
\* thread (master.after(0, ...)); any exception ends in the status line.
GuiOnMessage(g, topic, payload, tieUp, of) ==
    LET failed == [g EXCEPT !.status_var = <<"Error processing message">>]
    IN  IF ~Decodes(payload) THEN failed
        ELSE IF topic = ALARM_TOPIC
        THEN HandleAlarm(g, JsonLoads(payload), of)
        ELSE LET id == Split(Replace(topic, BASE_TOPIC))[1]
                 parts == Split(topic)
                 data_type == parts[Len(parts)]
             IN  IF data_type = <<"fill_level">>
                 THEN IF ParseFloat(payload).k = "ValueError" THEN failed
                      ELSE UpdateBinLevel(g, id, ParseFloat(payload), tieUp)
                 ELSE IF data_type = <<"status">>
                 THEN UpdateBinStatus(g, id, payload)
                 ELSE g

\* BinMonitorGUI._acknowledge_selected_alarm: the first selected item is
\* deleted from the list; the store is not touched.
AcknowledgeSelectedAlarm(g, selection) ==
    IF selection = <<>> THEN g
    ELSE LET k == selection[1]
             item == g.alarm_tree[k]
         IN  [g EXCEPT
                !.alarm_tree = SubSeq(@, 1, k - 1) \o SubSeq(@, k + 1, Len(@)),
                !.status_var = <<"Acknowledged alarm: ">> \o item.values[4]]

\* SELECT DISTINCT bin_id FROM bin_readings
DistinctBins(readings) == {readings[i].bin_id : i \in 1..Len(readings)}

\* The readings "ORDER BY timestamp DESC LIMIT 1" may return for a bin.
Latest(readings, id) ==
    {i \in 1..Len(readings) :
        /\ readings[i].bin_id = id
        /\ \A j \in 1..Len(readings) :
             readings[j].bin_id = id
                => readings[j].timestamp <= readings[i].timestamp}

\* The bin widgets after the loop over the distinct bins; picks holds, in
\* the order the bins are fetched, the reading taken as latest of each.
RECURSIVE ShowLatest(_, _, _, _)
ShowLatest(g, readings, picks, tieUp) ==
    IF picks = <<>> THEN g
    ELSE ShowLatest(UpdateBinLevel(g, readings[picks[1]].bin_id,
                                   readings[picks[1]].fill_level, tieUp),
                    readings, Tail(picks), tieUp)

\* BinMonitorGUI._update_from_database: the alarm list is cleared and
\* filled with the unacknowledged alarms of the store, in the order p (one
\* of OrderByTimestampDesc); then every bin shows its latest reading.  A
\* failing alarm query leaves the list as it is.
UpdateFromDatabase(g, st, faults, p, picks, tieUp) ==
    LET g1 == IF "select" \in faults THEN g
              ELSE [g EXCEPT !.alarm_tree =
                      [i \in 1..Len(p) |->
                         [values |-> <<SqlDateTime(st.alarms[p[i]].timestamp),
                                       st.alarms[p[i]].bin_id,
                                       <<st.alarms[p[i]].alarm_type>>,
                                       st.alarms[p[i]].message>>,
                          tags |-> DigitsOf(st.alarms[p[i]].id),
                          of |-> st.alarms[p[i]].id]]]
    IN  IF "select_readings" \in faults THEN g1
        ELSE ShowLatest(g1, st.readings, picks, tieUp)

\* A monitoring view after BinMonitorGUI.__init__, before its first poll.
\* delivered counts the alarm notifications the broker has handed to it,
\* acknowledged holds the alarms the operator has double-clicked.
NewGui == [alarm_tree |-> <<>>, bins |-> <<>>, status_var |-> <<>>,
           delivered |-> 0, acknowledged |-> {}]

\* No call of the store interface yet.
NoApiCall == [op |-> "none", arg |-> <<>>, rows |-> <<>>, exc |-> "None",
              log |-> <<>>, ops |-> <<>>, tables |-> RequiredTables, n |-> 0,
              pre |-> [readings |-> <<>>, events |-> <<>>, alarms |-> <<>>,
                       published |-> <<>>],
              post |-> [readings |-> <<>>, events |-> <<>>, alarms |-> <<>>,
                        published |-> <<>>]]

(***************************************************************************)
(* Actions of the pipeline                                                 *)
(***************************************************************************)
Store == [readings |-> bin_readings, events |-> bin_events,
          alarms |-> bin_alarms, published |-> published]

NoCall == [topic |-> <<>>, payload |-> <<>>, ops |-> <<>>, exc |-> "None",
           log |-> <<>>,
           pre |-> [readings |-> <<>>, events |-> <<>>, alarms |-> <<>>,
                    published |-> <<>>]]

Init ==
    /\ bin_readings = <<>>
    /\ bin_events = <<>>
    /\ bin_alarms = <<>>
    /\ published = <<>>
    /\ now = 0
    /\ handled = 0
    /\ last = NoCall
    /\ smart_bin = NewBin
    /\ bus = <<>>
    /\ call = NoApiCall
    /\ acked = {}
    /\ gui = NewGui
    /\ created = <<>>

\* One call of _on_message by the client's network loop.  An exception
\* that leaves the callback ends the loop, so no later call happens.
\* A call meets at most one fault: each fault ends the call's remaining
\* store and bus operations.
Handle(topic, payload, faults, tieUp) ==
    /\ handled < MaxMsgs
    /\ last.exc = "None"
    /\ LET st0 == [readings |-> bin_readings, events |-> bin_events,
                   alarms |-> bin_alarms, published |-> published,
                   ops |-> <<>>, exc |-> "None", log |-> <<>>]
           st == OnMessage(st0, topic, payload, faults, now, tieUp)
       IN  /\ bin_readings' = st.readings
           /\ bin_events' = st.events
           /\ bin_alarms' = st.alarms
           /\ published' = st.published
           /\ last' = [topic |-> topic, payload |-> payload,
                       ops |-> st.ops, exc |-> st.exc, log |-> st.log,
                       pre |-> Store]
           /\ created' = created
                 \o [i \in 1..(Len(st.alarms) - Len(bin_alarms)) |->
                       st.alarms[Len(bin_alarms) + i].id]
    /\ handled' = handled + 1
    /\ UNCHANGED now

\* A message some client published arrives.
Receive ==
    \E msg \in Messages, faults \in {{}} \cup {{f} : f \in Faults},
       tieUp \in BOOLEAN :
        /\ Handle(msg.topic, msg.payload, faults, tieUp)
        /\ UNCHANGED <<smart_bin, bus, apivars>>

\* The broker delivers one of the data manager's own alarm notifications
\* back to it: it subscribes to ALARM_TOPIC.
ReceiveOwnAlarm ==
    \E i \in 1..Len(published), faults \in {{}} \cup {{f} : f \in Faults} :
        /\ Subscribed(published[i].topic)
        /\ Handle(published[i].topic, published[i].payload, faults, FALSE)
        /\ UNCHANGED <<smart_bin, bus, apivars>>

Next == Receive \/ ReceiveOwnAlarm

Spec == Init /\ [][Next]_vars

(***************************************************************************)
(* Actions on the store: messages that are stored, the store interface of  *)
(* the data manager, and a restart of the data manager.                    *)
(***************************************************************************)
MaxCalls == 2       \* calls of the store interface and restarts

\* One message of every kind that is stored.
StoredMessages ==
    { Msg(FillTopic("bin_1"), <<"8", "5", ".", "3">>),
      Msg(StatusTopic("bin_1"), <<"Normal">>),
      Msg(ActuatorTopic("bin_2"), <<"ERROR">>) }

ReceiveStored ==
    \E msg \in StoredMessages, faults \in {{}} \cup {{f} : f \in Faults} :
        /\ Handle(msg.topic, msg.payload, faults, FALSE)
        /\ UNCHANGED <<smart_bin, bus, apivars>>

\* The ids acknowledge_alarm is called with: ids of stored alarms, an id
\* no alarm has, and 2^63, an int SQLite has no INTEGER for.
AlarmIdArgs ==
    { <<"1">>, <<"2">>, <<"7">>,
      <<"9", "2", "2", "3", "3", "7", "2", "0", "3", "6", "8", "5", "4", "7",
        "7", "5", "8", "0", "8">> }

ApiOutcome == [readings |-> bin_readings, events |-> bin_events,
               alarms |-> bin_alarms, published |-> published,
               tables |-> RequiredTables,
               ops |-> <<>>, exc |-> "None", log |-> <<>>]

\* The outcome st of a call of the store interface becomes the state.
Returns(op, arg, st, rows) ==
    /\ bin_readings' = st.readings
    /\ bin_events' = st.events
    /\ bin_alarms' = st.alarms
    /\ published' = st.published
    /\ call' = [op |-> op, arg |-> arg, rows |-> rows, exc |-> st.exc,
                log |-> st.log, ops |-> st.ops, tables |-> st.tables,
                n |-> call.n + 1, pre |-> Store,
                post |-> [readings |-> st.readings, events |-> st.events,
                          alarms |-> st.alarms, published |-> st.published]]
    /\ acked' = acked \cup {st.alarms[i].id :
                               i \in (1..Len(st.alarms))
                                      \ Unacknowledged(st.alarms)}
    /\ UNCHANGED <<now, handled, last, created, smart_bin, bus, gui>>

\* Some client of the data manager calls acknowledge_alarm.
Acknowledge ==
    \E alarm_id \in AlarmIdArgs, faults \in {{}, {"update"}} :
        /\ call.n < MaxCalls
        /\ Returns("acknowledge_alarm", alarm_id,
                   AcknowledgeAlarm(ApiOutcome, alarm_id, faults), <<>>)

\* Some client of the data manager calls get_active_alarms.
Query ==
    \E faults \in {{}, {"select"}},
       p \in OrderByTimestampDesc(bin_alarms, Unacknowledged(bin_alarms)) :
        LET r == GetActiveAlarms(ApiOutcome, faults, p)
        IN  /\ call.n < MaxCalls
            /\ Returns("get_active_alarms", <<>>, r.st, r.rows)

\* The data manager is stopped and a new DataManager is constructed over
\* the database file the stopped one has left: the file exists and holds
\* the three tables.  The verifying query can fail, as every statement can
\* (the database is locked by another connection for the five seconds
\* sqlite3 waits).
Restart ==
    \E faults \in {{}, {"verify"}} :
        /\ call.n < MaxCalls
        /\ Returns("DataManager", <<>>,
                   DataManagerInit(ApiOutcome, TRUE, RequiredTables, faults),
                   <<>>)

NextStore == ReceiveStored \/ Acknowledge \/ Query

SpecStore == Init /\ [][NextStore]_vars

NextRestart == ReceiveStored \/ Acknowledge \/ Query \/ Restart

SpecRestart == Init /\ [][NextRestart]_vars


(***************************************************************************)
(* Readings: fill_level messages handled without a failing store write or  *)
(* publication, the clock, and the query for the latest reading.           *)
(***************************************************************************)
MaxClock == 1       \* seconds the clock advances

\* fill_level payloads: levels of a bin in range, out of range, at and
\* over the threshold, not-a-number, and text that is no number.
ReadingMessages ==
    { Msg(FillTopic("bin_1"), p) :
        p \in { <<"1", "0">>, <<"2", "0">>, <<"8", "5", ".", "3">>,
                <<"1", "5", "0">>, <<"-", "5">>, <<"nan">>,
                <<"not_a_number">> } }
    \cup { Msg(FillTopic("bin_2"), <<"1", "0">>) }

ReceiveReading ==
    \E msg \in ReadingMessages :
        /\ Handle(msg.topic, msg.payload, {}, FALSE)
        /\ UNCHANGED <<smart_bin, bus, apivars>>

\* A second passes: CURRENT_TIMESTAMP has the resolution of a second.
Tick ==
    /\ now < MaxClock
    /\ now' = now + 1
    /\ UNCHANGED <<bin_readings, bin_events, bin_alarms, published, handled,
                   last, created, smart_bin, bus, apivars>>

\* Some client asks for the latest reading of a bin: get_bin_data(id, 1).
QueryLatest ==
    \E id \in {<<"bin_1">>, <<"bin_2">>, <<"bin_3">>},
       faults \in {{}, {"select"}} :
        \E p \in OrderByTimestampDesc(
                    bin_readings,
                    {i \in 1..Len(bin_readings) : bin_readings[i].bin_id = id}) :
            LET r == GetBinData(ApiOutcome, id, 1, faults, p)
            IN  /\ call.n < MaxCalls
                /\ Returns("get_bin_data", [bin_id |-> id, limit |-> 1],
                           r.st, r.rows)

NextReadings == ReceiveReading \/ Tick \/ QueryLatest

SpecReadings == Init /\ [][NextReadings]_vars

(***************************************************************************)
(* Actions of the monitoring view, next to a data manager whose store      *)
(* writes and publications succeed: its k-th notification is the one of    *)
(* the alarm with id k.                                                    *)
(***************************************************************************)
ReceiveAlarming ==
    \E msg \in StoredMessages :
        /\ Handle(msg.topic, msg.payload, {}, FALSE)
        /\ UNCHANGED <<smart_bin, bus, apivars>>

\* The broker hands the view the next alarm notification.
GuiAlarm ==
    LET k == gui.delivered + 1
    IN  /\ k <= Len(published)
        /\ k <= Len(bin_alarms)
        /\ gui' = [GuiOnMessage(gui, published[k].topic, published[k].payload,
                                FALSE, k)
                     EXCEPT !.delivered = k]
        /\ UNCHANGED <<dmvars, smart_bin, bus, call, acked>>

\* What the loop over the distinct bins of a poll may take as latest
\* readings: one latest reading of every bin, the bins in any order.
LatestPicks(readings) ==
    LET n == Cardinality(DistinctBins(readings))
    IN  { q \in [1..n -> 1..Len(readings)] :
            /\ \A i, j \in 1..n :
                 i # j => readings[q[i]].bin_id # readings[q[j]].bin_id
            /\ \A i \in 1..n : q[i] \in Latest(readings, readings[q[i]].bin_id) }

\* The ten-second timer of the view fires.
GuiPoll ==
    \E faults \in {{}, {"select"}},
       p \in OrderByTimestampDesc(bin_alarms, Unacknowledged(bin_alarms)),
       picks \in LatestPicks(bin_readings), tieUp \in BOOLEAN :
        /\ gui' = UpdateFromDatabase(gui, ApiOutcome, faults, p, picks, tieUp)
        /\ UNCHANGED <<dmvars, smart_bin, bus, call, acked>>

\* The operator double-clicks an item of the alarm list.
GuiAcknowledge ==
    \E k \in 1..Len(gui.alarm_tree) :
        /\ gui' = [AcknowledgeSelectedAlarm(gui, <<k>>)
                     EXCEPT !.acknowledged = @ \cup {gui.alarm_tree[k].of}]
        /\ UNCHANGED <<dmvars, smart_bin, bus, call, acked>>

NextGui == ReceiveAlarming \/ GuiAlarm \/ GuiPoll \/ GuiAcknowledge

SpecGui == Init /\ [][NextGui]_vars

(***************************************************************************)
(* Startup of the data manager over whatever database file it finds.       *)
(***************************************************************************)
\* The database file a constructor finds when somebody has deleted it or
\* dropped tables of it since the data manager was stopped: tables are the
\* tables it holds, and a table that is missing holds no rows.
Found(st, exists, tables) ==
    [st EXCEPT !.readings = IF "bin_readings" \in tables THEN @ ELSE <<>>,
               !.events = IF "bin_events" \in tables THEN @ ELSE <<>>,
               !.alarms = IF "bin_alarms" \in tables THEN @ ELSE <<>>,
               !.tables = tables]

\* The tables of the file: all, all but one, or none.
FoundTables ==
    {RequiredTables, {}} \cup {RequiredTables \ {t} : t \in RequiredTables}

\* What can fail during one construction: the verifying query, the first
\* call of init_database, its second call, the connection to the broker.
StartFaults ==
    { {}, {"verify"}, {"init"}, {"verify", "init"}, {"init", "init_again"},
      {"connect"} }

\* No constructor has been left by an exception: a data manager runs.
Running == ~(call.op = "DataManager" /\ call.exc # "None")

\* A running data manager is handed a message.
ReceiveStarted == Running /\ ReceiveAlarming

\* The data manager is stopped (or its construction has failed), and a
\* DataManager is constructed over the database file that is found.
Startup ==
    \E exists \in BOOLEAN, tables \in FoundTables, faults \in StartFaults :
        /\ call.n < MaxCalls
        /\ ~exists => tables = {}
        /\ Returns("DataManager", [exists |-> exists, tables |-> tables],
                   DataManagerNew(Found(ApiOutcome, exists, tables),
                                  exists, tables, faults),
                   <<>>)

NextStartup == ReceiveStarted \/ Startup

SpecStartup == Init /\ [][NextStartup]_vars

(***************************************************************************)
(* Actions of a bin system and of the broker between it and the data       *)
(* manager.                                                                *)
(* A handler that publishes runs when the broker has room for all it may   *)
(* publish (three messages).                                               *)
(***************************************************************************)
Room == Len(bus) + 3 <= MaxBus

\* The outcome b of a handler becomes the state; what it published goes
\* to the broker.
Becomes(b) ==
    /\ smart_bin' = [b EXCEPT !.out = <<>>]
    /\ bus' = bus \o b.out
    /\ UNCHANGED <<dmvars, apivars>>

\* SmartBinSystem._on_connect with rc = 0, at the first connection and at
\* every reconnection.
Connect ==
    /\ smart_bin.is_running \/ smart_bin.loops < MaxLoops
    /\ Becomes(SensorStart(smart_bin))

\* ControlPanel._on_power_toggle
PowerToggle ==
    /\ Room
    /\ smart_bin.power \/ smart_bin.is_running \/ smart_bin.loops < MaxLoops
    /\ Becomes([OnPowerChange([smart_bin EXCEPT !.power = ~@],
                              ~smart_bin.power)
                  EXCEPT !.off = smart_bin.power])

\* ControlPanel._on_emergency_empty
EmergencyEmpty ==
    /\ Len(smart_bin.threads) < MaxThreads
    /\ Becomes(TriggerEmpty(smart_bin))

\* ControlPanel._on_rate_change
RateChange ==
    \E rate \in RateChoices :
        /\ rate # smart_bin.fill_rate
        /\ Becomes(SetFillRate(smart_bin, rate))

\* Mutant of LoopStep: the loop does not test is_running.
LoopStepForever ==
    /\ smart_bin.loops > 0
    /\ Room
    /\ smart_bin.measured < MaxMeasure
    /\ Len(smart_bin.threads) < MaxThreads
    /\ \E noise \in Noises, tieUp \in BOOLEAN :
         Becomes(Measure(smart_bin, noise, tieUp))

\* A measurement loop wakes from its sleep: it ends when is_running is
\* false, and measures otherwise.  The body between the test and the
\* next sleep takes far less than the second stop() waits in join, so a
\* loop is asleep whenever another handler has returned.
LoopStep ==
    /\ smart_bin.loops > 0
    /\ IF ~smart_bin.is_running
       THEN Becomes([smart_bin EXCEPT !.loops = @ - 1])
       ELSE /\ Room
            /\ smart_bin.measured < MaxMeasure
            /\ Len(smart_bin.threads) < MaxThreads
            /\ \E noise \in Noises, tieUp \in BOOLEAN :
                 Becomes(Measure(smart_bin, noise, tieUp))

\* An emptying sequence takes its next step.
ActuatorStep ==
    \E i \in 1..Len(smart_bin.threads) :
        LET pc == smart_bin.threads[i]
            rest == IF pc = Len(Sequence)
                    THEN SubSeq(smart_bin.threads, 1, i - 1)
                         \o SubSeq(smart_bin.threads, i + 1,
                                   Len(smart_bin.threads))
                    ELSE [smart_bin.threads EXCEPT ![i] = pc + 1]
        IN  /\ Room
            /\ Becomes(UpdateState([smart_bin EXCEPT !.threads = rest],
                                   Sequence[pc]))

\* The broker routes the oldest message: to the data manager when the
\* topic matches one of its subscriptions, to nobody otherwise.
BrokerRoute ==
    /\ bus # <<>>
    /\ bus' = Tail(bus)
    /\ UNCHANGED <<smart_bin, apivars>>
    /\ IF Subscribed(bus[1].topic)
       THEN Handle(bus[1].topic, bus[1].payload, {}, FALSE)
       ELSE UNCHANGED dmvars

\* The data manager is not connected (or has handled all the model lets
\* it handle): the message reaches nobody.
BrokerDrop ==
    /\ bus # <<>>
    /\ bus' = Tail(bus)
    /\ UNCHANGED <<smart_bin, dmvars, apivars>>

NextBin ==
    \/ Connect \/ PowerToggle \/ EmergencyEmpty \/ RateChange
    \/ LoopStep \/ ActuatorStep \/ BrokerRoute \/ BrokerDrop

SpecBin == Init /\ [][NextBin]_vars

(***************************************************************************)
(* Automatic emptying.  The bin system has been filling for a while: its   *)
(* sensor, started by _on_connect alone or by the Power button, has taken  *)
(* 66 measurements of 1.0 + 0.2 each.  The data manager is not connected.  *)
(* The sensor and actuator threads are scheduled fairly: a thread that is  *)
(* asleep wakes up after its time.sleep.  A thread's step waits in the     *)
(* model, not in the code, for room at the broker, hence strong fairness.  *)
(***************************************************************************)
Filling(b, level) == [b EXCEPT !.current_level = level, !.out = <<>>]

FillingBins ==
    { Filling(SensorStart(NewBin), 7920),
      Filling(OnPowerChange([NewBin EXCEPT !.power = TRUE], TRUE), 7920) }

InitAuto ==
    /\ bin_readings = <<>>
    /\ bin_events = <<>>
    /\ bin_alarms = <<>>
    /\ published = <<>>
    /\ now = 0
    /\ handled = 0
    /\ last = NoCall
    /\ smart_bin \in FillingBins
    /\ bus = <<>>
    /\ call = NoApiCall
    /\ acked = {}
    /\ gui = NewGui
    /\ created = <<>>

NextAuto ==
    \/ Connect \/ PowerToggle \/ EmergencyEmpty \/ RateChange
    \/ LoopStep \/ ActuatorStep \/ BrokerDrop

SpecAuto ==
    /\ InitAuto
    /\ [][NextAuto]_vars
    /\ SF_vars(LoopStep)
    /\ SF_vars(ActuatorStep)
    /\ WF_vars(BrokerDrop)

(***************************************************************************)
(* A measurement near the threshold, from the sensor to the data manager.  *)
(* The sensor has taken one measurement of 1.0 - 0.2 and 65 of 1.0 + 0.2,  *)
(* which makes 78.8; the fill-rate knob is at 1.0 or has been moved to     *)
(* 0.96.  The data manager is connected and the broker loses nothing.      *)
(***************************************************************************)
KnobRates == {96, 100}

NearFullBins ==
    { SetFillRate(Filling(b, 7880), rate) :
        b \in { SensorStart(NewBin),
                OnPowerChange([NewBin EXCEPT !.power = TRUE], TRUE) },
        rate \in KnobRates }

InitNear ==
    /\ bin_readings = <<>>
    /\ bin_events = <<>>
    /\ bin_alarms = <<>>
    /\ published = <<>>
    /\ now = 0
    /\ handled = 0
    /\ last = NoCall
    /\ smart_bin \in NearFullBins
    /\ bus = <<>>
    /\ call = NoApiCall
    /\ acked = {}
    /\ gui = NewGui
    /\ created = <<>>

NextNear ==
    \/ PowerToggle \/ EmergencyEmpty \/ RateChange
    \/ LoopStep \/ ActuatorStep \/ BrokerRoute

SpecNear == InitNear /\ [][NextNear]_vars

(***************************************************************************)
(* Vocabulary of the properties.  They speak about the last call of        *)
(* _on_message: its message (last.topic, last.payload), the store before   *)
(* it (last.pre) and the store after it (the current tables).              *)
(***************************************************************************)
Called == handled > 0

\* topic is base/<bin-id>/kind: the base prefix, one segment, the kind.
IsBinTopic(topic, kind) ==
    /\ Len(topic) = Len(BASE_TOPIC) + 3
    /\ SubSeq(topic, 1, Len(BASE_TOPIC)) = BASE_TOPIC
    /\ topic[Len(BASE_TOPIC) + 1] # "/"
    /\ topic[Len(BASE_TOPIC) + 2] = "/"
    /\ topic[Len(BASE_TOPIC) + 3] = kind

\* The bin-id segment of a topic base/<bin-id>/kind.
BinOf(topic) == <<topic[Len(BASE_TOPIC) + 1]>>

Kinds == {"fill_level", "status", "actuator_state"}

\* The rows a call appended to a table, and that it kept the earlier ones.
Added(table, before) == SubSeq(table, Len(before) + 1, Len(table))
Kept(table, before) ==
    Len(table) >= Len(before) /\ SubSeq(table, 1, Len(before)) = before

\* The call changed neither the store nor the bus, and attempted nothing.
NoEffect == Store = last.pre /\ last.ops = <<>>

\* No store write and no publication of the call failed.
NoFault == \A i \in 1..Len(last.ops) : last.ops[i].ok

\* The payload is text that reads as a number, and that number.
Numeric(payload) ==
    Decodes(payload) /\ ParseFloat(payload).k \in {"num", "inf", "nan"}

\* v >= 80.0 and v < 80.0, on the decimal itself.
AtLeast80(v) == \/ v.k = "inf" /\ v.m > 0
                \/ v.k = "num" /\ v.m >= 80 * Pow10(v.e)
Below80(v) == \/ v.k = "inf" /\ v.m < 0
              \/ v.k = "num" /\ v.m < 80 * Pow10(v.e)

HighFillRows(table, b) ==
    {i \in 1..Len(table) :
        table[i].alarm_type = "HIGH_FILL" /\ table[i].bin_id = b}

\* The last call was a fill_level message of a bin with a numeric payload.
FillCall == /\ Called
            /\ IsBinTopic(last.topic, "fill_level")
            /\ Numeric(last.payload)

(***************************************************************************)
(* C1.  A fill_level message whose payload is a number >= 80.0 (80.0       *)
(* included), handled without a failing store write or publication, adds   *)
(* exactly one alarm row: an unacknowledged HIGH_FILL alarm of the topic's *)
(* bin, whatever alarms the store already holds (no deduplication), so     *)
(* the bin's HIGH_FILL rows grow by one per such message.  Payload "85.3"  *)
(* gives the message "Bin bin_1 is 85.3% full".                            *)
(***************************************************************************)
C1_OneHighFillAlarmPerMessage ==
    (FillCall /\ AtLeast80(ParseFloat(last.payload)) /\ NoFault) =>
        LET new == Added(bin_alarms, last.pre.alarms)
            bin == BinOf(last.topic)
        IN  /\ Kept(bin_alarms, last.pre.alarms)
            /\ Len(new) = 1
            /\ new[1].alarm_type = "HIGH_FILL"
            /\ new[1].bin_id = bin
            /\ new[1].acknowledged = FALSE
            /\ Cardinality(HighFillRows(bin_alarms, bin))
                 = Cardinality(HighFillRows(last.pre.alarms, bin)) + 1
            /\ last.payload = <<"8", "5", ".", "3">> =>
                 new[1].message
                   = <<"Bin ">> \o bin \o <<" is ", "8", "5", ".", "3", "% full">>

\* The same qualifying message has been handled twice and left two rows;
\* the second delivery is of the boundary value 80.
C1_Witness ==
    /\ FillCall /\ NoFault
    /\ last.payload = <<"8", "0">>
    /\ Len(last.pre.alarms) = 1
    /\ Len(bin_alarms) = 2
    /\ bin_alarms[1].message = bin_alarms[2].message
    /\ bin_alarms[2].message
         = <<"Bin ", "bin_1", " is ", "8", "0", ".", "0", "% full">>

(***************************************************************************)
(* C2.  Persist, then notify: every alarm notification published has its   *)
(* own stored alarm row with the same bin_id, type and message; within a   *)
(* call a publication is attempted only directly after the INSERT of the   *)
(* alarm has succeeded, so a failed INSERT is followed by no publication.  *)
(***************************************************************************)
SameAlarm(row, d) ==
    row.bin_id = d.bin_id /\ row.alarm_type = d.type /\ row.message = d.message

C2_PersistBeforePublish ==
    /\ \A i \in 1..Len(published) :
         LET d == JsonLoads(published[i].payload)
         IN  /\ published[i].topic = ALARM_TOPIC
             /\ Cardinality({j \in 1..Len(published) :
                               JsonLoads(published[j].payload) = d})
                  <= Cardinality({j \in 1..Len(bin_alarms) :
                                    SameAlarm(bin_alarms[j], d)})
    /\ \A i \in 1..Len(last.ops) :
         last.ops[i].op = "publish" =>
            /\ i > 1
            /\ last.ops[i - 1] = [op |-> "INSERT bin_alarms", ok |-> TRUE]
    /\ \A i \in 1..Len(last.ops) :
         (last.ops[i].op = "INSERT bin_alarms" /\ ~last.ops[i].ok) =>
            /\ i = Len(last.ops)
            /\ published = last.pre.published

\* An alarm has been stored and then published by the last call.
C2_Witness ==
    /\ Called
    /\ Len(published) = Len(last.pre.published) + 1
    /\ Len(bin_alarms) = Len(last.pre.alarms) + 1
    /\ SameAlarm(bin_alarms[Len(bin_alarms)],
                 JsonLoads(published[Len(published)].payload))

(***************************************************************************)
(* C3.  A fill_level message whose payload does not read as a number       *)
(* inserts no row in any table and publishes nothing: the store and the    *)
(* bus are as before, and one error line is logged.                        *)
(***************************************************************************)
C3_ParseFailureNoEffect ==
    (/\ Called
     /\ IsBinTopic(last.topic, "fill_level")
     /\ Decodes(last.payload)
     /\ ParseFloat(last.payload).k = "ValueError") =>
        /\ NoEffect
        /\ last.log = <<"Invalid fill level value">>
        /\ last.exc = "None"

\* "not_a_number" arrived on a bin's fill_level topic when the store
\* already held rows.
C3_Witness ==
    /\ Called
    /\ IsBinTopic(last.topic, "fill_level")
    /\ last.payload = <<"not_a_number">>
    /\ Len(bin_readings) > 0
    /\ NoEffect

(***************************************************************************)
(* C4.  A fill_level message whose value is strictly below 80.0 creates    *)
(* no alarm row and publishes no alarm notification.                       *)
(***************************************************************************)
C4_BelowThresholdNoAlarm ==
    (FillCall /\ Below80(ParseFloat(last.payload))) =>
        /\ bin_alarms = last.pre.alarms
        /\ published = last.pre.published

\* 79.95 (which renders as 80.0) was stored as a reading without an alarm.
C4_Witness ==
    /\ FillCall /\ NoFault
    /\ last.payload = <<"7", "9", ".", "9", "5">>
    /\ Len(bin_readings) = Len(last.pre.readings) + 1
    /\ bin_alarms = last.pre.alarms

(***************************************************************************)
(* C5.  A message that should store two rows (a fill_level >= 80.0: a      *)
(* reading and a HIGH_FILL alarm; an actuator_state ERROR: an event and an *)
(* ACTUATOR_ERROR alarm) stores both rows or neither, also when a store    *)
(* write fails.  The code commits the first row before it opens the        *)
(* connection for the alarm, so this fails when the alarm INSERT fails.    *)
(***************************************************************************)
TwoRowCall ==
    /\ Called
    /\ \/ FillCall /\ AtLeast80(ParseFloat(last.payload))
       \/ IsBinTopic(last.topic, "actuator_state") /\ last.payload = <<"ERROR">>

C5_TwoRowsAtomic ==
    TwoRowCall =>
        \/ /\ Len(bin_readings) + Len(bin_events)
                = Len(last.pre.readings) + Len(last.pre.events) + 1
           /\ Len(bin_alarms) = Len(last.pre.alarms) + 1
        \/ /\ bin_readings = last.pre.readings
           /\ bin_events = last.pre.events
           /\ bin_alarms = last.pre.alarms

(***************************************************************************)
(* C6.  Errors stay inside the call: no exception leaves _on_message, and  *)
(* every call, also one that follows a call that hit a parse, storage or   *)
(* publish error, does to the store and the bus exactly what the handler   *)
(* does with that message on an empty store: it keeps the earlier rows     *)
(* and appends the same rows, numbered on from the rows before.            *)
(***************************************************************************)
EmptyOutcome == [readings |-> <<>>, events |-> <<>>, alarms |-> <<>>,
                 published |-> <<>>, ops |-> <<>>, exc |-> "None",
                 log |-> <<>>]

FromOne(rows, before) ==
    [i \in 1..Len(rows) |-> [rows[i] EXCEPT !.id = @ - Len(before)]]

C6_ErrorsContained ==
    /\ last.exc = "None"
    /\ Called =>
        /\ Kept(bin_readings, last.pre.readings)
        /\ Kept(bin_events, last.pre.events)
        /\ Kept(bin_alarms, last.pre.alarms)
        /\ Kept(published, last.pre.published)
        /\ \E faults \in {{}} \cup {{f} : f \in Faults}, tieUp \in BOOLEAN :
             LET r == OnMessage(EmptyOutcome, last.topic, last.payload,
                                faults, now, tieUp)
             IN  /\ r.ops = last.ops
                 /\ r.log = last.log
                 /\ r.readings = FromOne(Added(bin_readings, last.pre.readings),
                                         last.pre.readings)
                 /\ r.events = FromOne(Added(bin_events, last.pre.events),
                                       last.pre.events)
                 /\ r.alarms = FromOne(Added(bin_alarms, last.pre.alarms),
                                       last.pre.alarms)
                 /\ r.published = Added(published, last.pre.published)

\* An earlier call stored a reading >= 80.0 but failed to store its alarm;
\* the call after it stored its reading, its alarm and published it.
C6_Witness ==
    /\ FillCall /\ NoFault
    /\ Len(last.pre.readings) = 1
    /\ AtLeast80(last.pre.readings[1].fill_level)
    /\ last.pre.alarms = <<>>
    /\ Len(bin_readings) = 2
    /\ Len(bin_alarms) = 1
    /\ Len(published) = 1

(***************************************************************************)
(* C7.  A message whose topic is neither the alarm topic nor the base      *)
(* prefix followed by exactly one bin-id segment and one kind segment is   *)
(* rejected: no row is written, nothing is published.  The code takes the  *)
(* last two segments of any topic that starts with the base prefix, so     *)
(* this fails for base/fill_level and for base/depot/bin_1/actuator_state. *)
(***************************************************************************)
IsBinScoped(topic) ==
    /\ Len(topic) = Len(BASE_TOPIC) + 3
    /\ SubSeq(topic, 1, Len(BASE_TOPIC)) = BASE_TOPIC
    /\ topic[Len(BASE_TOPIC) + 1] # "/"
    /\ topic[Len(BASE_TOPIC) + 2] = "/"
    /\ topic[Len(BASE_TOPIC) + 3] # "/"

C7_MalformedTopicRejected ==
    (Called /\ last.topic # ALARM_TOPIC /\ ~IsBinScoped(last.topic)) => NoEffect

(***************************************************************************)
(* C8.  A message whose last topic segment is none of fill_level, status,  *)
(* actuator_state writes nothing and publishes nothing; so an alarm        *)
(* notification that comes back on the alarm topic produces no row and no  *)
(* further notification.                                                   *)
(***************************************************************************)
LastSegment(topic) ==
    IF topic = <<>> \/ topic[Len(topic)] = "/" THEN "" ELSE topic[Len(topic)]

C8_UnknownKindNoEffect ==
    (Called /\ LastSegment(last.topic) \notin Kinds) =>
        NoEffect /\ last.exc = "None" /\ last.log = <<>>

\* The data manager was handed its own alarm notification.
C8_Witness ==
    /\ handled = 2
    /\ last.topic = ALARM_TOPIC
    /\ Len(published) = 1
    /\ last.payload = published[1].payload
    /\ Len(bin_alarms) = 1
    /\ NoEffect

(***************************************************************************)
(* C9.  An actuator_state message, handled without a failing store write   *)
(* or publication, inserts exactly one event row of kind ACTUATOR_STATE    *)
(* with the payload as details, and it creates and publishes exactly one   *)
(* ACTUATOR_ERROR alarm if the payload is the token ERROR and none         *)
(* otherwise; with or without failures, no alarm is created or published   *)
(* for another payload.                                                    *)
(***************************************************************************)
ActuatorCall ==
    Called /\ IsBinTopic(last.topic, "actuator_state") /\ Decodes(last.payload)

C9_ActuatorStateEvent ==
    ActuatorCall =>
        LET bin == BinOf(last.topic)
            ev == Added(bin_events, last.pre.events)
            al == Added(bin_alarms, last.pre.alarms)
            pub == Added(published, last.pre.published)
        IN  /\ bin_readings = last.pre.readings
            /\ Kept(bin_events, last.pre.events)
            /\ Kept(bin_alarms, last.pre.alarms)
            /\ Kept(published, last.pre.published)
            /\ last.payload # <<"ERROR">> => al = <<>> /\ pub = <<>>
            /\ NoFault =>
                /\ Len(ev) = 1
                /\ ev[1].bin_id = bin
                /\ ev[1].event_type = "ACTUATOR_STATE"
                /\ ev[1].details = last.payload
                /\ last.payload = <<"ERROR">> =>
                    /\ Len(al) = 1
                    /\ al[1].bin_id = bin
                    /\ al[1].alarm_type = "ACTUATOR_ERROR"
                    /\ al[1].acknowledged = FALSE
                    /\ Len(pub) = 1
                    /\ pub[1].topic = ALARM_TOPIC
                    /\ SameAlarm(al[1], JsonLoads(pub[1].payload))

\* ERROR arrived for bin_2: one event, one ACTUATOR_ERROR alarm, published.
C9_Witness ==
    /\ ActuatorCall /\ NoFault
    /\ last.payload = <<"ERROR">>
    /\ Len(bin_events) = Len(last.pre.events) + 1
    /\ bin_events[Len(bin_events)].details = <<"ERROR">>
    /\ bin_events[Len(bin_events)].bin_id = <<"bin_2">>
    /\ Len(bin_alarms) = Len(last.pre.alarms) + 1
    /\ bin_alarms[Len(bin_alarms)].alarm_type = "ACTUATOR_ERROR"
    /\ Len(published) = Len(last.pre.published) + 1

(***************************************************************************)
(* C10.  Every actuator state change of a bin system is published on the   *)
(* topic base/<bin_id>/actuator_state, which matches the data manager's    *)
(* subscription for actuator_state, so that a delivered state change is    *)
(* recorded as an ACTUATOR_STATE event of the bin.  The code builds the    *)
(* topic as f"{BASE_TOPIC}/{bin_id}/actuator_state" with BASE_TOPIC        *)
(* already ending in "/": the topic has an empty segment before the bin    *)
(* id and matches no subscription.                                         *)
(***************************************************************************)
C10_ActuatorStateTopicSubscribed ==
    \A i \in 1..Len(bus) :
        LastSegment(bus[i].topic) = "actuator_state" =>
            /\ bus[i].topic = BASE_TOPIC \o <<bin_id, "/", "actuator_state">>
            /\ MatchesFilter(bus[i].topic,
                             BASE_TOPIC \o <<"+", "/", "actuator_state">>)

(***************************************************************************)
(* Vocabulary of the properties of the store interface.  They speak about  *)
(* the last call of it: call.op, its argument call.arg, the store before   *)
(* it (call.pre) and the store when it returned (call.post).               *)
(***************************************************************************)
TablesOf(store) == [readings |-> store.readings, events |-> store.events,
                    alarms |-> store.alarms]

\* The row of the alarm table that get_active_alarms returns for an alarm.
Listed(row) == [bin_id |-> row.bin_id, alarm_type |-> row.alarm_type,
                message |-> row.message,
                timestamp |-> SqlDateTime(row.timestamp)]

(***************************************************************************)
(* C11.  The acknowledged flag of an alarm is monotonic: an alarm id that  *)
(* has once been stored with acknowledged = true is never stored with      *)
(* acknowledged = false afterwards, over messages, acknowledge calls,      *)
(* queries and restarts of the data manager.  The code breaks this: a      *)
(* restart whose verifying query fails drops the alarm table, and the      *)
(* next alarm gets id 1 again, unacknowledged.                             *)
(***************************************************************************)
C11_AcknowledgedMonotonic ==
    \A i \in 1..Len(bin_alarms) :
        bin_alarms[i].id \in acked => bin_alarms[i].acknowledged

(***************************************************************************)
(* C12.  acknowledge_alarm is total and idempotent: it never raises; for   *)
(* an id no alarm has it leaves the store as it was; and a second call     *)
(* with the same id leaves the store as the first call left it.  The code  *)
(* breaks totality: an int beyond 2^63 - 1 is the id of no alarm, and      *)
(* binding it raises OverflowError, which the handler does not catch.      *)
(***************************************************************************)
C12_AcknowledgeTotalIdempotent ==
    call.op = "acknowledge_alarm" =>
        /\ call.exc = "None"
        /\ (\A i \in 1..Len(call.pre.alarms) :
               DigitsOf(call.pre.alarms[i].id) # call.arg)
              => call.post = call.pre
        /\ call.log = <<>> =>
              LET once == [readings |-> call.post.readings,
                           events |-> call.post.events,
                           alarms |-> call.post.alarms,
                           published |-> call.post.published,
                           ops |-> <<>>, exc |-> "None", log |-> <<>>]
                  again == AcknowledgeAlarm(once, call.arg, {})
              IN  /\ again.exc = "None"
                  /\ TablesOf(again) = TablesOf(call.post)
                  /\ again.published = call.post.published

(***************************************************************************)
(* C13.  A call of get_active_alarms whose query succeeds returns exactly  *)
(* the stored alarms with acknowledged = false, each of them once:         *)
(* no acknowledged alarm, and every unacknowledged one.                    *)
(***************************************************************************)
C13_ActiveAlarmsExact ==
    (call.op = "get_active_alarms" /\ call.log = <<>>) =>
        /\ call.post = call.pre
        /\ Len(call.rows) = Cardinality(Unacknowledged(call.pre.alarms))
        /\ \E p \in [1..Len(call.rows) -> Unacknowledged(call.pre.alarms)] :
             /\ \A i, j \in 1..Len(call.rows) : i # j => p[i] # p[j]
             /\ \A i \in 1..Len(call.rows) :
                  call.rows[i] = Listed(call.pre.alarms[p[i]])

\* A query has answered over a store that holds an acknowledged and an
\* unacknowledged alarm.
C13_Witness ==
    /\ call.op = "get_active_alarms"
    /\ call.log = <<>>
    /\ Len(call.rows) = 1
    /\ \E i \in 1..Len(call.pre.alarms) : call.pre.alarms[i].acknowledged
    /\ \E i \in 1..Len(call.pre.alarms) : ~call.pre.alarms[i].acknowledged

(***************************************************************************)
(* C14.  An alarm the operator has acknowledged in the monitoring view     *)
(* (double click) is acknowledged in the store, and no item that a poll    *)
(* of the store has put into the alarm list shows it.  The code breaks     *)
(* this: the double click only deletes the item from the list; the store   *)
(* keeps acknowledged = false and the next poll lists the alarm again.     *)
(***************************************************************************)
C14_GuiAcknowledgeReachesStore ==
    \A id \in gui.acknowledged :
        /\ \A i \in 1..Len(bin_alarms) :
             bin_alarms[i].id = id => bin_alarms[i].acknowledged
        /\ \A k \in 1..Len(gui.alarm_tree) :
             gui.alarm_tree[k].of = id
                => gui.alarm_tree[k].tags = <<"alarm">>

(***************************************************************************)
(* C15.  The alarm list of the monitoring view never shows one stored      *)
(* alarm more than once, however the insert of the alarm, its live         *)
(* notification and a poll of the store interleave.  The code breaks       *)
(* this: a poll between the insert and the arrival of the notification     *)
(* lists the alarm, and the notification then adds it a second time.       *)
(***************************************************************************)
C15_NoDuplicateAlarmShown ==
    \A i, j \in 1..Len(gui.alarm_tree) :
        i # j => gui.alarm_tree[i].of # gui.alarm_tree[j].of

(***************************************************************************)
(* C16.  Once the bin system has handled power-off, it publishes no        *)
(* fill_level message until power is switched on again: no handler that    *)
(* starts and ends in the switched-off state hands a fill_level message    *)
(* to the broker.  The code breaks this: an emptying sequence that was     *)
(* running at power-off outlives the one-second join and ends with IDLE,   *)
(* whose callback publishes the level 0.0; and a reconnection starts the   *)
(* sensor whatever the power button says.                                  *)
(***************************************************************************)
C16_NoFillLevelAfterPowerOff ==
    [][(smart_bin.off /\ smart_bin'.off) =>
          \A i \in (Len(bus) + 1)..Len(bus') :
              bus'[i].topic # FillTopic(bin_id)]_vars

C18_ReadingsEventsAppendOnly ==
    [][/\ Kept(bin_readings', bin_readings)
       /\ Kept(bin_events', bin_events)]_vars

\* Two events are stored, and an alarm has been acknowledged after they
\* were.
C18_Witness ==
    /\ Len(bin_events) = 2
    /\ call.op = "acknowledge_alarm"
    /\ Len(call.pre.events) = 2
    /\ acked # {}

(***************************************************************************)
(* C19.  Alarm rows are never deleted: every step, a restart of the data   *)
(* manager included, keeps for every stored alarm a row with its id, bin   *)
(* id, kind and message.  The code breaks this: a restart whose verifying  *)
(* query raises sqlite3.Error drops the alarm table.                       *)
(***************************************************************************)
C19_AlarmsNeverDeleted ==
    [][\A i \in 1..Len(bin_alarms) :
          \E j \in 1..Len(bin_alarms') :
              /\ bin_alarms'[j].id = bin_alarms[i].id
              /\ bin_alarms'[j].bin_id = bin_alarms[i].bin_id
              /\ bin_alarms'[j].alarm_type = bin_alarms[i].alarm_type
              /\ bin_alarms'[j].message = bin_alarms[i].message]_vars

(***************************************************************************)
(* C20.  Constructing a new DataManager over an existing store with the    *)
(* three tables leaves every Reading, Event and Alarm row as it was,       *)
(* acknowledged flags included.  The code breaks this: when the query      *)
(* that verifies the tables raises sqlite3.Error, the constructor          *)
(* initialises the database again and all rows are gone.                   *)
(***************************************************************************)
C20_RestartKeepsRows ==
    call.op = "DataManager" => TablesOf(call.post) = TablesOf(call.pre)

(***************************************************************************)
(* C21.  A startup that finds no database file, or a file in which one of  *)
(* the three tables is missing, and whose initialisation of the store      *)
(* does not fail, leaves the three tables existing and empty, whatever     *)
(* rows the tables that were still there held.                             *)
(***************************************************************************)
C21_MissingStoreRecreated ==
    (/\ call.op = "DataManager"
     /\ ~call.arg.exists \/ call.arg.tables # RequiredTables
     /\ call.exc # "sqlite3.Error") =>
        /\ call.tables = RequiredTables
        /\ call.post.readings = <<>>
        /\ call.post.events = <<>>
        /\ call.post.alarms = <<>>

\* The constructor found readings and alarms but no table bin_events.
C21_Witness ==
    /\ call.op = "DataManager"
    /\ call.exc = "None"
    /\ call.arg.exists
    /\ call.arg.tables = {"bin_readings", "bin_alarms"}
    /\ call.pre.readings # <<>>
    /\ call.pre.alarms # <<>>
    /\ call.post.readings = <<>>
    /\ call.post.alarms = <<>>

(***************************************************************************)
(* C22.  A constructor of the data manager is left by an exception only    *)
(* when the store could not be initialised: a failure to connect to the    *)
(* broker does not abort it.  The code breaks this: _setup_mqtt logs the   *)
(* exception of client.connect and raises it again, out of __init__.       *)
(***************************************************************************)
C22_OnlyStoreFailureAborts ==
    (call.op = "DataManager" /\ call.exc # "None") =>
        call.ops[Len(call.ops)] = [op |-> "DROP TABLE", ok |-> FALSE]

(***************************************************************************)
(* C23.  A query for the latest reading of a bin that succeeds returns     *)
(* nothing when the bin has no reading, and otherwise the reading of the   *)
(* bin that was inserted last, also when several readings of the bin have  *)
(* the same timestamp.  The code breaks this: it orders by timestamp       *)
(* only, CURRENT_TIMESTAMP counts seconds, and among the readings of one   *)
(* second the query is free to return any (SQLite returns the oldest).     *)
(***************************************************************************)
ReadingsOf(readings, id) ==
    {i \in 1..Len(readings) : readings[i].bin_id = id}

C23_LatestReadingIsLastInserted ==
    (call.op = "get_bin_data" /\ call.log = <<>>) =>
        LET of == ReadingsOf(call.pre.readings, call.arg.bin_id)
            newest == CHOOSE i \in of : \A j \in of : j <= i
        IN  IF of = {} THEN call.rows = <<>>
            ELSE /\ Len(call.rows) = 1
                 /\ call.rows[1].fill_level
                      = call.pre.readings[newest].fill_level
                 /\ call.rows[1].timestamp
                      = SqlDateTime(call.pre.readings[newest].timestamp)

(***************************************************************************)
(* C24.  Every stored reading has a fill level within [0, 100]: a          *)
(* fill_level payload that is a number below 0 or above 100 is not         *)
(* stored.  The code breaks this: _on_message hands every float to         *)
(* _handle_fill_level, which inserts it; "150" and "-5" are stored.        *)
(***************************************************************************)
InRange(v) == v.k = "num" /\ v.m >= 0 /\ v.m <= 100 * Pow10(v.e)

C24_ReadingsInRange ==
    \A i \in 1..Len(bin_readings) : InRange(bin_readings[i].fill_level)

(***************************************************************************)
(* C25.  A status message with an empty payload inserts no event row.      *)
(* The code breaks this: _on_message passes the empty string on, and       *)
(* _handle_status inserts a STATUS_CHANGE event with details "".           *)
(***************************************************************************)
C25_EmptyStatusNotRecorded ==
    (Called /\ IsBinTopic(last.topic, "status") /\ last.payload = <<>>) =>
        bin_events = last.pre.events

(***************************************************************************)
(* C26.  A status message whose payload is non-empty text never creates    *)
(* or publishes an alarm, whatever the text says (ERROR included), and,    *)
(* handled without a failing store write, inserts exactly one event row:   *)
(* kind STATUS_CHANGE, the bin of the topic, the payload as details.       *)
(***************************************************************************)
StatusCall ==
    /\ Called
    /\ IsBinTopic(last.topic, "status")
    /\ Decodes(last.payload)
    /\ last.payload # <<>>

C26_StatusEventNoAlarm ==
    StatusCall =>
        LET ev == Added(bin_events, last.pre.events)
        IN  /\ bin_alarms = last.pre.alarms
            /\ published = last.pre.published
            /\ bin_readings = last.pre.readings
            /\ Kept(bin_events, last.pre.events)
            /\ NoFault =>
                /\ Len(ev) = 1
                /\ ev[1].bin_id = BinOf(last.topic)
                /\ ev[1].event_type = "STATUS_CHANGE"
                /\ ev[1].details = last.payload

\* The status ERROR of bin_1 was recorded as an event, without an alarm.
C26_Witness ==
    /\ StatusCall /\ NoFault
    /\ last.payload = <<"ERROR">>
    /\ Len(bin_events) = Len(last.pre.events) + 1
    /\ bin_events[Len(bin_events)].details = <<"ERROR">>
    /\ bin_events[Len(bin_events)].event_type = "STATUS_CHANGE"
    /\ bin_alarms = last.pre.alarms

(***************************************************************************)
(* C27.  Alarm ids are unique and sequential: the ids the alarms are       *)
(* stored with increase strictly in the order the alarms are created, so   *)
(* no id is given to two alarms, over messages, acknowledge calls,         *)
(* queries and restarts.  The code breaks this: a restart whose verifying  *)
(* query fails drops bin_alarms and its AUTOINCREMENT counter, and the     *)
(* next alarm is stored with id 1 again.                                   *)
(***************************************************************************)
C27_AlarmIdsIncrease ==
    \A i, j \in 1..Len(created) : i < j => created[i] < created[j]

(***************************************************************************)
(* C28.  A fill_level message whose payload parses as a float, handled     *)
(* with no failure of the store or the bus injected, inserts exactly one   *)
(* reading row with the bin id of the topic and the parsed level, below    *)
(* and at or above the threshold alike; nothing is deduplicated.  The      *)
(* code breaks this: "nan" parses, SQLite stores a nan as NULL, the        *)
(* column is NOT NULL, and no reading is inserted.                         *)
(***************************************************************************)
C28_OneReadingPerFillLevel ==
    FillCall =>
        LET new == Added(bin_readings, last.pre.readings)
        IN  /\ Kept(bin_readings, last.pre.readings)
            /\ Len(new) = 1
            /\ new[1].bin_id = BinOf(last.topic)
            /\ new[1].fill_level = ParseFloat(last.payload)

(***************************************************************************)
(* C29.  The level of the simulated sensor is a percentage: current_level  *)
(* is within [0, 100] at all times, and so is every fill level the bin     *)
(* system publishes, for every fill rate of the control panel (0 to 10)    *)
(* and every noise in [-0.2, 0.2].  The code breaks this: the loop caps    *)
(* the sum of level, rate and noise at 100 but not at 0, so with rate 0    *)
(* and a level of 0 a negative noise gives a negative level.               *)
(***************************************************************************)
C29_SensorLevelInRange ==
    /\ smart_bin.current_level >= 0
    /\ smart_bin.current_level <= 10000
    /\ \A i \in 1..Len(bus) :
         bus[i].topic = FillTopic(bin_id)
            => InRange(ParseFloat(bus[i].payload))

(***************************************************************************)
(* C30.  At most one emptying sequence of an actuator runs at any time,    *)
(* under every interleaving of the requests of the sensor thread and of    *)
(* the control panel.  The code breaks this: trigger_empty tests           *)
(* current_state, which the sequence sets only once its thread runs, and   *)
(* which power_off and power_on set back to IDLE while a sequence is       *)
(* still running; a request that follows starts a second sequence.         *)
(***************************************************************************)
C30_OneEmptyingSequence == Len(smart_bin.threads) <= 1

(***************************************************************************)
(* C31.  At most one measurement loop of a sensor is alive at any time,    *)
(* however start(), stop() and the passes of the loop interleave.  The     *)
(* code breaks this: stop() gives up its join after a second and can       *)
(* leave the loop asleep; a start() before the loop wakes sets is_running  *)
(* again and starts a second thread, and the first, finding is_running     *)
(* true when it wakes, goes on measuring.                                  *)
(***************************************************************************)
C31_OneMeasurementLoop == smart_bin.loops <= 1

(***************************************************************************)
(* C32.  After power_off() has returned and until power_on() is called,    *)
(* the actuator is unpowered and IDLE, also when an emptying sequence was  *)
(* running at power-off.  The code breaks this: power_off sets IDLE and    *)
(* waits a second for the thread of a sequence that sleeps seven; the      *)
(* thread goes on to report EMPTYING, CLOSING and IDLE.                    *)
(***************************************************************************)
C32_PoweredOffStaysIdle ==
    ~smart_bin.is_powered => smart_bin.current_state = "IDLE"

(***************************************************************************)
(* C33.  The state of the actuator only moves along IDLE, OPENING,         *)
(* EMPTYING, CLOSING, IDLE, as the steps of a sequence report it, to       *)
(* ERROR, or back to IDLE when a power handler resets it.  The code        *)
(* breaks this: a sequence that outlives power_off, or a second sequence   *)
(* next to the first, reports its next step whatever the state has been    *)
(* set to meanwhile, so that EMPTYING follows IDLE.                        *)
(***************************************************************************)
StateMoves ==
    { <<"IDLE", "OPENING">>, <<"OPENING", "EMPTYING">>,
      <<"EMPTYING", "CLOSING">>, <<"CLOSING", "IDLE">> }

C33_ActuatorStateOrder ==
    [][\/ smart_bin'.current_state = smart_bin.current_state
       \/ smart_bin'.current_state \in {"IDLE", "ERROR"}
       \/ <<smart_bin.current_state, smart_bin'.current_state>>
             \in StateMoves]_vars

(***************************************************************************)
(* C34.  The level of the sensor is reset to zero only when an emptying    *)
(* sequence completes; powering the bin system on or off resets nothing.   *)
(* The code breaks this: power_on and power_off report IDLE through        *)
(* _update_state, and the callback of the bin system empties the sensor    *)
(* on every IDLE it is told.                                               *)
(***************************************************************************)
C34_ResetOnlyAfterEmptying ==
    [][(smart_bin.current_level # 0 /\ smart_bin'.current_level = 0) =>
          Len(smart_bin'.threads) < Len(smart_bin.threads)]_vars


(***************************************************************************)
(* C35: automatic emptying makes progress.  Whenever the sensor has        *)
(* reported a level of 80 or more while the actuator was powered and IDLE, *)
(* an emptying sequence has been started, and under fair scheduling of the *)
(* sensor and actuator threads the actuator is eventually IDLE with the    *)
(* sensor level reset to 0 and a fill_level of "0.0" published.            *)
(***************************************************************************)
ReportedFull ==
    /\ smart_bin.is_powered
    /\ smart_bin.current_state = "IDLE"
    /\ smart_bin.current_level >= 8000

EmptiedAndPublished ==
    /\ smart_bin.current_state = "IDLE"
    /\ smart_bin.current_level = 0
    /\ \E i \in 1..Len(bus) :
         bus[i] = Msg(FillTopic(bin_id), <<"0", ".", "0">>)

AlarmsOf(b, type) ==
    { i \in 1..Len(bin_alarms) :
        bin_alarms[i].bin_id = b /\ bin_alarms[i].alarm_type = type }

HighReadingsOf(b) ==
    { i \in 1..Len(bin_readings) :
        /\ bin_readings[i].bin_id = b
        /\ FloatGE(bin_readings[i].fill_level, BIN_FILL_LEVEL_THRESHOLD) }

ErrorEventsOf(b) ==
    { i \in 1..Len(bin_events) :
        /\ bin_events[i].bin_id = b
        /\ bin_events[i].event_type = "ACTUATOR_STATE"
        /\ bin_events[i].details = <<"ERROR">> }

C36_AlarmsBacked ==
    \A b \in { bin_alarms[i].bin_id : i \in 1..Len(bin_alarms) } :
        /\ Cardinality(AlarmsOf(b, "HIGH_FILL"))
              <= Cardinality(HighReadingsOf(b))
        /\ Cardinality(AlarmsOf(b, "ACTUATOR_ERROR"))
              <= Cardinality(ErrorEventsOf(b))

\* An alarm is stored, and the last message met a failing store write.
C36_Witness ==
    /\ bin_alarms # <<>>
    /\ \E i \in 1..Len(last.ops) :
         ~last.ops[i].ok /\ last.ops[i].op # "publish"


(***************************************************************************)
(* C37: the producer's status and the pipeline's alarm rule agree on every *)
(* measurement.  When the data manager has handled the fill_level message  *)
(* of a measurement and the status of the same measurement is the next     *)
(* message at the broker, that status is "Needs Emptying" if and only if   *)
(* the fill_level message raised a HIGH_FILL alarm.  The code breaks it:   *)
(* a raw level of 79.96 is below 80 for the producer and is published as   *)
(* "80.0", which is at the threshold for the pipeline.                     *)
(***************************************************************************)
RaisedHighFill ==
    /\ Len(bin_alarms) = Len(last.pre.alarms) + 1
    /\ bin_alarms[Len(bin_alarms)].alarm_type = "HIGH_FILL"

C37_StatusAgreesWithAlarm ==
    (/\ last.topic = FillTopic(bin_id)
     /\ bus # <<>>
     /\ bus[1].topic = StatusTopic(bin_id))
       => (bus[1].payload = <<"Needs Emptying">> <=> RaisedHighFill)

=============================================================================
